---- MODULE Spec2Model ----
(***************************************************************************)
(* Verification model of the options pricing / risk engine, the strategy   *)
(* evaluator and the Monte Carlo investment simulator.                     *)
(*                                                                         *)
(* JavaScript numbers are modelled as signed decimal fixed-point values    *)
(* with 5 integer digits and 12 fractional digits, together with the IEEE  *)
(* special values: signed zero, +Infinity, -Infinity and NaN.  A result    *)
(* whose magnitude reaches 10^5 overflows to Infinity and a result below   *)
(* 10^-12 underflows to zero, as a double does at its own limits; finite   *)
(* results are truncated towards zero.                                     *)
(***************************************************************************)
EXTENDS Integers, Sequences, FiniteSets, TLC

VARIABLES
    \* strategy evaluator: the legs of an ad-hoc strategy and its evaluations
    legs, currentStockPrice, stockPrices, pnlResult, diagram,
    \* strategy calculator: a bull call spread and its evaluations
    spreadLegs, spreadStockPrice, spreadAnalysis, spreadPnL,
    \* pricer: the arguments of one call and what the call gave back
    pricerInput, pricerOut,
    \* implied volatility: the arguments, the loop's iv and i, how the loop
    \* was left and the value returned
    ivInput, iv, ivIteration, ivExit, ivResult,
    \* Monte Carlo: the arguments of runMonteCarloSimulation and its results
    mcInput, mcResults, mcDone,
    \* investment simulator: the arguments of simulateFutureInvestment and
    \* what one run of it computed
    simInput, simRun,
    \* risk metrics: the arguments of the two VaR functions and their results
    riskInput, riskVaR, riskCVaR,
    \* strategy analysis: the body posted and the answers to successive posts
    analysisInput, analysisRuns,
    \* portfolio service: the portfolios by id, the time of the clock, the
    \* number of requests handled, the number of createPortfolio calls among
    \* them, the last request and the answer to it
    portfolios, clock, handled, created, request, response,
    \* daily summary: the cached summary, the calls of generateDailySummary,
    \* the requests to the two summary routes, the runs of the cron job
    dailySummary, generations, summaryRequests, scheduledRuns,
    \* strategy calculator: the body posted to /api/options/strategy and the answer
    calcInput, calcOut,
    \* Greeks route: the body posted, the arguments calculateGreeks was called
    \* with and the answer
    greeksBody, greeksCall, greeksResponse,
    \* simulation route: the body posted, the sorted outcomes of the run and the
    \* answer
    simBody, simOutcomes, simResponse,
    \* options chain: the instant and the zone of the request and the dates of the
    \* chain with their days to expiry
    chainNow, chainZone, chainExpirations

strategyVars == <<legs, currentStockPrice, stockPrices, pnlResult, diagram>>
spreadVars   == <<spreadLegs, spreadStockPrice, spreadAnalysis, spreadPnL>>
pricerVars   == <<pricerInput, pricerOut>>
ivVars       == <<ivInput, iv, ivIteration, ivExit, ivResult>>
mcVars       == <<mcInput, mcResults, mcDone>>
simVars      == <<simInput, simRun>>
riskVars     == <<riskInput, riskVaR, riskCVaR>>
coreVars     == <<strategyVars, spreadVars, pricerVars, ivVars, mcVars>>
analysisVars == <<analysisInput, analysisRuns>>
portfolioVars == <<portfolios, clock, handled, created, request, response>>
summaryVars == <<dailySummary, generations, summaryRequests, scheduledRuns>>
serviceVars  == <<simVars, riskVars, analysisVars, portfolioVars, summaryVars>>
calcVars == <<calcInput, calcOut>>
greeksVars == <<greeksBody, greeksCall, greeksResponse>>
simRouteVars == <<simBody, simOutcomes, simResponse>>
chainVars == <<chainNow, chainZone, chainExpirations>>
toolVars == <<calcVars, greeksVars, simRouteVars, chainVars>>
vars == <<coreVars, serviceVars, toolVars>>

\* What the actions of one component leave alone.
strategyRest == <<spreadVars, pricerVars, ivVars, mcVars, serviceVars, toolVars>>
spreadRest   == <<strategyVars, pricerVars, ivVars, mcVars, serviceVars, toolVars>>
pricerRest   == <<strategyVars, spreadVars, ivVars, mcVars, serviceVars, toolVars>>
ivRest       == <<strategyVars, spreadVars, pricerVars, mcVars, serviceVars, toolVars>>
mcRest       == <<strategyVars, spreadVars, pricerVars, ivVars, serviceVars, toolVars>>
simRest      == <<coreVars, riskVars, analysisVars, portfolioVars, summaryVars, toolVars>>
riskRest     == <<coreVars, simVars, analysisVars, portfolioVars, summaryVars, toolVars>>
analysisRest == <<coreVars, simVars, riskVars, portfolioVars, summaryVars, toolVars>>
portfolioRest == <<coreVars, simVars, riskVars, analysisVars, summaryVars, toolVars>>
summaryRest  == <<coreVars, simVars, riskVars, analysisVars, portfolioVars, toolVars>>
calcRest == <<coreVars, serviceVars, greeksVars, simRouteVars, chainVars>>
greeksRest == <<coreVars, serviceVars, calcVars, simRouteVars, chainVars>>
simRouteRest == <<coreVars, serviceVars, calcVars, greeksVars, chainVars>>
chainRest == <<coreVars, serviceVars, calcVars, greeksVars, simRouteVars>>

----------------------------------------------------------------------------
(* Number representation.                                                  *)

LIMB == 100 * 100
HALF == LIMB * LIMB
\* The whole numbers stay below WHOLE, the h of a magnitude below TOP.
WHOLE == 10 * LIMB
TOP == 10 * HALF

\* A finite magnitude [h, l] stands for h / 10^4 + l / 10^12, 0 <= h < 10^9
\* and 0 <= l < 10^8.
Mag(h, l) == [h |-> h, l |-> l]

MagZero == Mag(0, 0)

Magnitudes == [h : Nat, l : Nat]

MagIsZero(a) == a.h = 0 /\ a.l = 0

MagLt(a, b) == a.h < b.h \/ (a.h = b.h /\ a.l < b.l)

MagLe(a, b) == ~MagLt(b, a)

\* Sum; h may reach 2 * 10^9, which the caller treats as overflow.
MagAdd[a \in Magnitudes, b \in Magnitudes] ==
    LET l == a.l + b.l
    IN  Mag(a.h + b.h + (l \div HALF), l % HALF)

\* Difference a - b for b <= a.
MagSub[a \in Magnitudes, b \in Magnitudes] ==
    IF a.l >= b.l THEN Mag(a.h - b.h, a.l - b.l)
    ELSE Mag(a.h - b.h - 1, a.l + HALF - b.l)

\* Carries over the column sums c0 .. c6 of a product of two four-limb
\* magnitudes; ovf tells that the product reaches 10^5, rem that digits
\* were cut off.
MagMulColumns(c0, c1, c2, c3, c4, c5, c6) ==
    LET k5 == c5 + (c6 \div LIMB)
        k4 == c4 + (k5 \div LIMB)
        k3 == c3 + (k4 \div LIMB)
        k2 == c2 + (k3 \div LIMB)
        k1 == c1 + (k2 \div LIMB)
        k0 == c0 + (k1 \div LIMB)
    IN  [ovf |-> k0 >= WHOLE,
         rem |-> k4 % LIMB # 0 \/ k5 % LIMB # 0 \/ c6 % LIMB # 0,
         m   |-> Mag((k0 % WHOLE) * LIMB + (k1 % LIMB),
                     (k2 % LIMB) * LIMB + (k3 % LIMB))]

MagMulLimbs(x0, x1, x2, x3, y0, y1, y2, y3) ==
    MagMulColumns(x0 * y0,
                  x0 * y1 + x1 * y0,
                  x0 * y2 + x1 * y1 + x2 * y0,
                  x0 * y3 + x1 * y2 + x2 * y1 + x3 * y0,
                  x1 * y3 + x2 * y2 + x3 * y1,
                  x2 * y3 + x3 * y2,
                  x3 * y3)

\* Product truncated to 12 fractional digits (schoolbook multiplication on
\* base-10^4 limbs); a product of whole parts beyond 10^5 is an overflow
\* without being multiplied out.
MagMul[a \in Magnitudes, b \in Magnitudes] ==
    IF a.h >= LIMB /\ b.h \div LIMB > WHOLE \div (a.h \div LIMB)
    THEN [ovf |-> TRUE, rem |-> FALSE, m |-> MagZero]
    ELSE MagMulLimbs(a.h \div LIMB, a.h % LIMB, a.l \div LIMB, a.l % LIMB,
                     b.h \div LIMB, b.h % LIMB, b.l \div LIMB, b.l % LIMB)

\* Quotient of a by a whole number 0 < n < 2 * 10^5, truncated (long division).
MagDivInt[a \in Magnitudes, n \in Nat] ==
    LET x0 == a.h \div LIMB  x1 == a.h % LIMB
        x2 == a.l \div LIMB  x3 == a.l % LIMB
        q0 == x0 \div n                r0 == x0 % n
        q1 == (r0 * LIMB + x1) \div n  r1 == (r0 * LIMB + x1) % n
        q2 == (r1 * LIMB + x2) \div n  r2 == (r1 * LIMB + x2) % n
        q3 == (r2 * LIMB + x3) \div n
    IN  Mag(q0 * LIMB + q1, q2 * LIMB + q3)

\* p <= a for a product p, compared on the exact product.
ProductLe(p, a) == ~p.ovf /\ (MagLt(p.m, a) \/ (p.m = a /\ ~p.rem))

\* q * b <= a
MulLe(q, b, a) == ProductLe(MagMul[q, b], a)

\* q with bit k set: the bits 27 .. 56 are those of q.h, 0 .. 26 those of q.l.
BitCandidate(q, k) ==
    IF k >= 27 THEN Mag(q.h + 2^(k - 27), q.l) ELSE Mag(q.h, q.l + 2^k)

\* c is a magnitude and c * b <= a (quotient), or c * c <= a (root).
BitFits(a, b, c, isRoot) ==
    /\ c.h < TOP
    /\ c.l < HALF
    /\ IF isRoot THEN MulLe(c, c, a) ELSE MulLe(c, b, a)

\* The largest magnitude that fits, found from the bit hi down to the bit
\* lo on top of the bits q already has.
BitSearch[a \in Magnitudes, b \in Magnitudes, q \in Magnitudes,
          hi \in Nat, lo \in Nat, isRoot \in BOOLEAN] ==
    IF hi = lo
    THEN IF BitFits(a, b, BitCandidate(q, hi), isRoot)
         THEN BitCandidate(q, hi) ELSE q
    ELSE BitSearch[a, b, BitSearch[a, b, q, hi, (hi + lo + 1) \div 2, isRoot],
                   (hi + lo + 1) \div 2 - 1, lo, isRoot]

\* top is the largest magnitude times b: a beyond top + b has no quotient
\* below 10^5.
MagDivBounded(a, b, top) ==
    IF ~top.ovf /\ MagLt(MagAdd[top.m, b], a)
    THEN [ovf |-> TRUE, m |-> MagZero]
    ELSE [ovf |-> FALSE, m |-> BitSearch[a, b, MagZero, 56, 0, FALSE]]

\* Quotient a / b for b > 0, truncated; ovf tells that it reaches 10^5.
MagDiv(a, b) ==
    IF b.l = 0 /\ b.h % LIMB = 0 /\ b.h \div LIMB < WHOLE
    THEN [ovf |-> FALSE, m |-> MagDivInt[a, b.h \div LIMB]]
    ELSE MagDivBounded(a, b, MagMul[Mag(TOP - 1, HALF - 1), b])

\* Largest y with y * y <= a; y < 317, so its bits start at 48.
MagSqrt(a) == BitSearch[a, a, MagZero, 48, 0, TRUE]

----------------------------------------------------------------------------
(* JavaScript Number values and operators.                                 *)

Fin(s, m) == [k |-> "fin", s |-> s, h |-> m.h, l |-> m.l]
Inf(s)    == [k |-> "inf", s |-> s, h |-> 0, l |-> 0]
NaN       == [k |-> "nan", s |-> 1, h |-> 0, l |-> 0]

MagOf(x) == Mag(x.h, x.l)

\* The whole number n, |n| < 10^5.
Num(n) == Fin(IF n < 0 THEN -1 ELSE 1, Mag((IF n < 0 THEN -n ELSE n) * LIMB, 0))

\* The decimal literal w.aaaabbbbcccc.
Dec(w, a, b, c) == Fin(1, Mag(w * LIMB + a, b * LIMB + c))

IsNaN(x)    == x.k = "nan"
IsFinite(x) == x.k = "fin"
IsZero(x)   == x.k = "fin" /\ x.h = 0 /\ x.l = 0

Numbers == [k : {"fin", "inf", "nan"}, s : {-1, 1}, h : Nat, l : Nat]

\* unary minus
FNeg[x \in Numbers] == IF IsNaN(x) THEN NaN ELSE [x EXCEPT !.s = -x.s]

\* Math.abs
FAbs[x \in Numbers] == IF IsNaN(x) THEN NaN ELSE [x EXCEPT !.s = 1]

\* a < b (false when either is NaN; -0 and +0 are equal)
FLt(a, b) ==
    /\ ~IsNaN(a) /\ ~IsNaN(b)
    /\ IF a.k = "inf" THEN a.s = -1 /\ ~(b.k = "inf" /\ b.s = -1)
       ELSE IF b.k = "inf" THEN b.s = 1
       ELSE IF IsZero(a) /\ IsZero(b) THEN FALSE
       ELSE IF a.s # b.s THEN a.s < b.s
       ELSE IF a.s = 1 THEN MagLt(MagOf(a), MagOf(b))
       ELSE MagLt(MagOf(b), MagOf(a))

\* a > b, a <= b, a >= b
FGt(a, b) == FLt(b, a)

\* a === b
FEq(a, b) ==
    /\ ~IsNaN(a) /\ ~IsNaN(b)
    /\ \/ IsZero(a) /\ IsZero(b)
       \/ a = b

FLe(a, b) == FLt(a, b) \/ FEq(a, b)
FGe(a, b) == FLe(b, a)

\* a + b
FAdd[a \in Numbers, b \in Numbers] ==
    IF IsNaN(a) \/ IsNaN(b) THEN NaN
    ELSE IF a.k = "inf"
         THEN IF b.k = "inf" /\ b.s # a.s THEN NaN ELSE a
    ELSE IF b.k = "inf" THEN b
    ELSE IF a.s = b.s
         THEN LET m == MagAdd[MagOf(a), MagOf(b)]
              IN  IF m.h >= TOP THEN Inf(a.s) ELSE Fin(a.s, m)
    ELSE IF MagOf(a) = MagOf(b) THEN Fin(1, MagZero)
    ELSE IF MagLt(MagOf(b), MagOf(a))
         THEN Fin(a.s, MagSub[MagOf(a), MagOf(b)])
    ELSE Fin(b.s, MagSub[MagOf(b), MagOf(a)])

\* a - b
FSub[a \in Numbers, b \in Numbers] == FAdd[a, FNeg[b]]

\* The finite number of sign s and magnitude p.m, or the infinity of sign s
\* when p overflowed.
FinOrInf(s, p) == IF p.ovf THEN Inf(s) ELSE Fin(s, p.m)

\* a * b
FMul[a \in Numbers, b \in Numbers] ==
    IF IsNaN(a) \/ IsNaN(b) THEN NaN
    ELSE IF a.k = "inf" \/ b.k = "inf"
         THEN IF IsZero(a) \/ IsZero(b) THEN NaN ELSE Inf(a.s * b.s)
    ELSE FinOrInf(a.s * b.s, MagMul[MagOf(a), MagOf(b)])

\* a / b
FDiv[a \in Numbers, b \in Numbers] ==
    IF IsNaN(a) \/ IsNaN(b) THEN NaN
    ELSE IF a.k = "inf"
         THEN IF b.k = "inf" THEN NaN ELSE Inf(a.s * b.s)
    ELSE IF b.k = "inf" THEN Fin(a.s * b.s, MagZero)
    ELSE IF IsZero(b)
         THEN IF IsZero(a) THEN NaN ELSE Inf(a.s * b.s)
    ELSE FinOrInf(a.s * b.s, MagDiv(MagOf(a), MagOf(b)))

\* Math.max(a, b)
FMax[a \in Numbers, b \in Numbers] ==
    IF IsNaN(a) \/ IsNaN(b) THEN NaN
    ELSE IF FLt(a, b) THEN b
    ELSE IF FLt(b, a) THEN a
    ELSE IF a.s = 1 THEN a ELSE b

\* Math.min(a, b)
FMin[a \in Numbers, b \in Numbers] ==
    IF IsNaN(a) \/ IsNaN(b) THEN NaN
    ELSE IF FLt(a, b) THEN a
    ELSE IF FLt(b, a) THEN b
    ELSE IF a.s = -1 THEN a ELSE b

\* Math.sqrt
FSqrt[x \in Numbers] ==
    IF IsNaN(x) THEN NaN
    ELSE IF IsZero(x) THEN x
    ELSE IF x.s = -1 THEN NaN
    ELSE IF x.k = "inf" THEN x
    ELSE Fin(1, MagSqrt(MagOf(x)))


LN2 == Dec(0, 6931, 4718, 559)

\* One more term of the Taylor series of e^r: acc + term, term * r / n.
ExpStep(r, st, n) ==
    [term |-> MagDivInt[MagMul[st.term, r].m, n], acc |-> MagAdd[st.acc, st.term]]

\* The terms from .. to of the series.
ExpTerms[r \in Magnitudes, st \in [term : Magnitudes, acc : Magnitudes],
         from \in Nat, to \in Nat] ==
    IF from = to THEN ExpStep(r, st, from)
    ELSE ExpTerms[r, ExpTerms[r, st, from, (from + to) \div 2],
                  (from + to) \div 2 + 1, to]

\* e^r for a magnitude r < 1
ExpSeries(r) ==
    Fin(1, ExpTerms[r, [term |-> Mag(LIMB, 0), acc |-> MagZero], 1, 24].acc)

\* m / 2^k, k <= 48
HalveBy(m, k) ==
    IF k <= 16 THEN MagDivInt[m, 2^k]
    ELSE IF k <= 32 THEN MagDivInt[MagDivInt[m, 2^16], 2^(k - 16)]
    ELSE MagDivInt[MagDivInt[MagDivInt[m, 2^16], 2^16], 2^(k - 32)]

\* k * ln 2 as a magnitude, k <= 40
TimesLN2(k) == MagMul[Mag(k * LIMB, 0), MagOf(LN2)].m

\* The k with k * ln 2 <= a < (k + 1) * ln 2 or just beyond, for a < 28.
ExpShift(a) ==
    IF MagLt(a, TimesLN2((a.h * 1000) \div 6931472))
    THEN (a.h * 1000) \div 6931472 - 1
    ELSE (a.h * 1000) \div 6931472

\* e^x = 2^k * e^r and e^-x = (1 / e^r) / 2^k, for |x| = k * ln 2 + r
ExpFrom(x, k) ==
    IF x.s = 1
    THEN IF k >= 17 THEN Inf(1)
         ELSE FMul[ExpSeries(MagSub[MagOf(x), TimesLN2(k)]), Num(2^k)]
    ELSE Fin(1, HalveBy(MagOf(FDiv[Num(1), ExpSeries(MagSub[MagOf(x), TimesLN2(k)])]),
                        k))

\* Math.exp; beyond |x| = 28 the result is out of the range of the numbers.
FExp[x \in Numbers] ==
    IF IsNaN(x) THEN NaN
    ELSE IF x.k = "inf" THEN (IF x.s = 1 THEN x ELSE Fin(1, MagZero))
    ELSE IF x.h >= 28 * LIMB THEN (IF x.s = 1 THEN Inf(1) ELSE Fin(1, MagZero))
    ELSE ExpFrom(x, ExpShift(MagOf(x)))

\* r * 2^j for a product r, j <= 13; an overflow stays one.
DoubleBy(r, j) ==
    IF r.ovf THEN r ELSE MagMul[r.m, Mag(2^j * LIMB, 0)]

\* a / 2^e as a product, -40 <= e <= 17
LogScale(a, e) ==
    IF e >= 0 THEN [ovf |-> FALSE, rem |-> FALSE, m |-> MagDivInt[a, 2^e]]
    ELSE IF e >= -13 THEN DoubleBy([ovf |-> FALSE, rem |-> FALSE, m |-> a], -e)
    ELSE IF e >= -26
         THEN DoubleBy(DoubleBy([ovf |-> FALSE, rem |-> FALSE, m |-> a], 13), -e - 13)
    ELSE DoubleBy(DoubleBy(DoubleBy([ovf |-> FALSE, rem |-> FALSE, m |-> a], 13), 13),
                  -e - 26)

\* a / 2^e lies in [0.75, 1.5)
LogInRange(p) ==
    ~p.ovf /\ p.m.h >= (3 * LIMB) \div 4 /\ p.m.h < (3 * LIMB) \div 2

\* The e with a / 2^e in [0.75, 1.5), for a magnitude a > 0.
LogShift(a) ==
    CHOOSE e \in (IF a.h >= LIMB THEN 0..17 ELSE -40..0) :
        LogInRange(LogScale(a, e))

\* One more term of 2 * (z + z^3 / 3 + z^5 / 5 + ...): acc + pow / n.
LogStep(zz, st, i) ==
    [pow |-> FMul[st.pow, zz], acc |-> FAdd[st.acc, FDiv[st.pow, Num(2 * i + 1)]]]

LogTerms[zz \in Numbers, st \in [pow : Numbers, acc : Numbers],
         from \in Nat, to \in Nat] ==
    IF from = to THEN LogStep(zz, st, from)
    ELSE LogTerms[zz, LogTerms[zz, st, from, (from + to) \div 2],
                  (from + to) \div 2 + 1, to]

\* e * ln 2 + ln((1 + z) / (1 - z))
LogFrom(z, e) ==
    FAdd[FMul[Num(e), LN2],
         FMul[Num(2), LogTerms[FMul[z, z], [pow |-> z, acc |-> Fin(1, MagZero)],
                               0, 15].acc]]

\* ln(m * 2^e) for m in [0.75, 1.5), with z = (m - 1) / (m + 1)
LogReduced(m, e) ==
    LogFrom(FDiv[FSub[Fin(1, m), Num(1)], FAdd[Fin(1, m), Num(1)]], e)

LogShifted(a, e) == LogReduced(LogScale(a, e).m, e)

\* Math.log
FLog[x \in Numbers] ==
    IF IsNaN(x) THEN NaN
    ELSE IF IsZero(x) THEN Inf(-1)
    ELSE IF x.s = -1 THEN NaN
    ELSE IF x.k = "inf" THEN x
    ELSE LogShifted(MagOf(x), LogShift(MagOf(x)))

\* Math.PI
PI == Dec(3, 1415, 9265, 3589)

\* One more term of the Taylor series of cos y: acc + term,
\* -term * y^2 / (n (n + 1)) for n = 2 i - 1.
CosStep(yy, st, i) ==
    [term |-> FNeg[FDiv[FMul[st.term, yy], Num((2 * i - 1) * (2 * i))]],
     acc  |-> FAdd[st.acc, st.term]]

CosTerms[yy \in Numbers, st \in [term : Numbers, acc : Numbers],
         from \in Nat, to \in Nat] ==
    IF from = to THEN CosStep(yy, st, from)
    ELSE CosTerms[yy, CosTerms[yy, st, from, (from + to) \div 2],
                  (from + to) \div 2 + 1, to]

CosSeries(yy) ==
    CosTerms[yy, [term |-> Num(1), acc |-> Fin(1, MagZero)], 1, 16].acc

\* cos of a magnitude, reduced into [0, pi / 2].
RECURSIVE CosReduce(_)
CosReduce(y) ==
    IF FGt(y, FMul[Num(2), PI]) THEN CosReduce(FSub[y, FMul[Num(2), PI]])
    ELSE IF FGt(y, PI) THEN CosReduce(FSub[FMul[Num(2), PI], y])
    ELSE IF FGt(y, FDiv[PI, Num(2)]) THEN FNeg[CosReduce(FSub[PI, y])]
    ELSE CosSeries(FMul[y, y])

\* Math.cos
FCos[x \in Numbers] ==
    IF ~IsFinite(x) THEN NaN ELSE CosReduce(FAbs[x])

----------------------------------------------------------------------------
(* OptionsService: pricer and Greeks (analytic implementation).            *)

\* ((((a5 t + a4) t + a3) t + a2) t + a1), the polynomial of normalCDF and
\* of erf.
ErfPolynomial(t) ==
    FAdd[FMul[FAdd[FMul[FAdd[FMul[FAdd[FMul[Dec(1, 614, 542, 9000), t],
                                       FNeg[Dec(1, 4531, 5202, 7000)]], t],
                             Dec(1, 4214, 1374, 1000)], t],
                   FNeg[Dec(0, 2844, 9673, 6000)]], t],
         Dec(0, 2548, 2959, 2000)]

\* y = 1.0 - poly * t * Math.exp(-x * x)
ErfTail(x, t) ==
    FSub[Num(1), FMul[FMul[ErfPolynomial(t), t], FExp[FMul[FNeg[x], x]]]]

\* t = 1.0 / (1.0 + p * x), then y
ErfOfMagnitude(x) ==
    ErfTail(x, FDiv[Num(1), FAdd[Num(1), FMul[Dec(0, 3275, 9110, 0), x]]])

\* normalCDF(x): the fixed-coefficient approximation of the normal CDF.
normalCDF(x0) ==
    FMul[Dec(0, 5000, 0, 0),
         FAdd[Num(1),
              FMul[IF FLt(x0, Num(0)) THEN Num(-1) ELSE Num(1),
                   ErfOfMagnitude(FDiv[FAbs[x0], FSqrt[Num(2)]])]]]

\* normalPDF(x)
normalPDF(x) ==
    FDiv[FExp[FMul[FMul[FNeg[Dec(0, 5000, 0, 0)], x], x]],
         FSqrt[FMul[Num(2), PI]]]

\* d1 = (ln(S/K) + (r + 0.5 sigma^2) T) / (sigma sqrt(T))
D1(S, K, T, r, sigma) ==
    FDiv[FAdd[FLog[FDiv[S, K]],
              FMul[FAdd[r, FMul[FMul[Dec(0, 5000, 0, 0), sigma], sigma]], T]],
         FMul[sigma, FSqrt[T]]]

\* d2 = d1 - sigma sqrt(T)
D2(d1, T, sigma) == FSub[d1, FMul[sigma, FSqrt[T]]]

\* K * Math.exp(-r * T)
Discounted(K, r, T) == FMul[K, FExp[FMul[FNeg[r], T]]]

\* The two return statements of blackScholesPrice.
PriceFrom(S, K, T, r, d1, d2, optionType) ==
    IF optionType = "call"
    THEN FSub[FMul[S, normalCDF(d1)],
              FMul[Discounted(K, r, T), normalCDF(d2)]]
    ELSE FSub[FMul[Discounted(K, r, T), normalCDF(FNeg[d2])],
              FMul[S, normalCDF(FNeg[d1])]]

PriceFromD1(S, K, T, r, sigma, d1, optionType) ==
    PriceFrom(S, K, T, r, d1, D2(d1, T, sigma), optionType)

\* blackScholesPrice(S, K, T, r, sigma, optionType)
blackScholesPrice(S, K, T, r, sigma, optionType) ==
    PriceFromD1(S, K, T, r, sigma, D1(S, K, T, r, sigma), optionType)

\* calculateVega(S, K, T, r, sigma)
calculateVega(S, K, T, r, sigma) ==
    FMul[FMul[S, normalPDF(D1(S, K, T, r, sigma))], FSqrt[T]]

\* The Greeks of calculateGreeks once d1, d2 and the discount factor
\* Math.exp(-r * T) are known.
GreeksFrom(S, K, T, r, sigma, d1, d2, disc, optionType) ==
    [delta |-> IF optionType = "call" THEN normalCDF(d1)
               ELSE FSub[normalCDF(d1), Num(1)],
     gamma |-> FDiv[normalPDF(d1), FMul[FMul[S, sigma], FSqrt[T]]],
     theta |-> FDiv[IF optionType = "call"
                    THEN FSub[FDiv[FNeg[FMul[FMul[S, normalPDF(d1)], sigma]],
                                   FMul[Num(2), FSqrt[T]]],
                              FMul[FMul[FMul[r, K], disc], normalCDF(d2)]]
                    ELSE FAdd[FDiv[FNeg[FMul[FMul[S, normalPDF(d1)], sigma]],
                                   FMul[Num(2), FSqrt[T]]],
                              FMul[FMul[FMul[r, K], disc], normalCDF(FNeg[d2])]],
                    Num(365)],
     vega  |-> FDiv[calculateVega(S, K, T, r, sigma), Num(100)],
     rho   |-> FDiv[IF optionType = "call"
                    THEN FMul[FMul[FMul[K, T], disc], normalCDF(d2)]
                    ELSE FMul[FMul[FMul[FNeg[K], T], disc], normalCDF(FNeg[d2])],
                    Num(100)]]

GreeksFromD1(S, K, T, r, sigma, d1, optionType) ==
    GreeksFrom(S, K, T, r, sigma, d1, D2(d1, T, sigma), FExp[FMul[FNeg[r], T]],
               optionType)

\* calculateGreeks(stockPrice, strike, timeToExpiry, interestRate, volatility,
\* optionType), the analytic implementation.
calculateGreeks(S, K, T, r, sigma, optionType) ==
    GreeksFromD1(S, K, T, r, sigma, D1(S, K, T, r, sigma), optionType)

----------------------------------------------------------------------------
(* OptionsService: pricer and Greeks (finite-difference implementation).   *)

\* erf(x): the error function approximation.
erf(x0) ==
    FMul[IF FLt(x0, Num(0)) THEN Num(-1) ELSE Num(1), ErfOfMagnitude(FAbs[x0])]

\* N(x) = 0.5 * (1 + erf(x / sqrt(2))), the closure inside blackScholes.
N(x) == FMul[Dec(0, 5000, 0, 0), FAdd[Num(1), erf(FDiv[x, FSqrt[Num(2)]])]]

\* The two return statements of blackScholes.
LegacyPriceFrom(S, K, T, r, d1, d2, optionType) ==
    IF optionType = "call"
    THEN FSub[FMul[S, N(d1)], FMul[Discounted(K, r, T), N(d2)]]
    ELSE FSub[FMul[Discounted(K, r, T), N(FNeg[d2])], FMul[S, N(FNeg[d1])]]

LegacyPriceFromD1(S, K, T, r, sigma, d1, optionType) ==
    LegacyPriceFrom(S, K, T, r, d1, D2(d1, T, sigma), optionType)

\* blackScholes(S, K, T, r, sigma, optionType)
blackScholes(S, K, T, r, sigma, optionType) ==
    LegacyPriceFromD1(S, K, T, r, sigma, D1(S, K, T, r, sigma), optionType)

\* The differences of calculateGreeks over the six prices it computes.
GreeksFromPrices(price, priceUp, priceDown, priceTheta, priceVega, priceRho) ==
    [price |-> price,
     delta |-> FDiv[FSub[priceUp, price], Dec(0, 100, 0, 0)],
     gamma |-> FDiv[FAdd[FSub[priceUp, FMul[Num(2), price]], priceDown],
                    FMul[Dec(0, 100, 0, 0), Dec(0, 100, 0, 0)]],
     theta |-> FDiv[FNeg[FSub[priceTheta, price]], Dec(0, 10, 0, 0)],
     vega  |-> FDiv[FSub[priceVega, price], Dec(0, 10, 0, 0)],
     rho   |-> FDiv[FSub[priceRho, price], Dec(0, 10, 0, 0)]]

\* calculateGreeks(S, K, T, r, sigma, optionType), the finite-difference
\* implementation: dt = 0.001, dS = 0.01, dsigma = 0.001, dr = 0.001.
calculateGreeksFD(S, K, T, r, sigma, optionType) ==
    GreeksFromPrices(
        blackScholes(S, K, T, r, sigma, optionType),
        blackScholes(FAdd[S, Dec(0, 100, 0, 0)], K, T, r, sigma, optionType),
        blackScholes(FSub[S, Dec(0, 100, 0, 0)], K, T, r, sigma, optionType),
        blackScholes(S, K, FSub[T, Dec(0, 10, 0, 0)], r, sigma, optionType),
        blackScholes(S, K, T, r, FAdd[sigma, Dec(0, 10, 0, 0)], optionType),
        blackScholes(S, K, T, FAdd[r, Dec(0, 10, 0, 0)], sigma, optionType))

----------------------------------------------------------------------------
(* OptionsService.calculateStrategyPnL and the browser's createPnLDiagram. *)

\* A faulty variant of the leg P&L: a sold option is valued like a bought
\* one.  The properties of the evaluator must tell it from the real one.
StrategyLegPnLUnsigned(leg, price, current) ==
    IF leg.type = "stock"
    THEN IF leg.action = "buy"
         THEN FMul[FSub[price, current], leg.quantity]
         ELSE FMul[FSub[current, price], leg.quantity]
    ELSE LET intrinsicValue ==
                 IF leg.type = "call"
                 THEN FMax[Num(0), FSub[price, leg.strike]]
                 ELSE FMax[Num(0), FSub[leg.strike, price]]
         IN  FMul[FMul[FSub[intrinsicValue, leg.premium], leg.quantity],
                  Num(100)]

\* The P&L of one leg at one price, as calculateStrategyPnL's forEach body
\* adds it to totalPnL.
StrategyLegPnL(leg, price, current) ==
    IF leg.type = "stock"
    THEN IF leg.action = "buy"
         THEN FMul[FSub[price, current], leg.quantity]
         ELSE FMul[FSub[current, price], leg.quantity]
    ELSE LET intrinsicValue ==
                 IF leg.type = "call"
                 THEN FMax[Num(0), FSub[price, leg.strike]]
                 ELSE FMax[Num(0), FSub[leg.strike, price]]
         IN  IF leg.action = "buy"
             THEN FMul[FMul[FSub[intrinsicValue, leg.premium], leg.quantity],
                       Num(100)]
             ELSE FMul[FMul[FSub[leg.premium, intrinsicValue], leg.quantity],
                       Num(100)]

\* totalPnL after the legs i..Len(ls) have been added to total.
RECURSIVE StrategyTotalPnL(_, _, _, _, _)
StrategyTotalPnL(ls, i, price, current, total) ==
    IF i > Len(ls) THEN total
    ELSE StrategyTotalPnL(ls, i + 1, price, current,
                          FAdd[total, StrategyLegPnL(ls[i], price, current)])

\* calculateStrategyPnL(strategy, stockPrices, currentStockPrice)
calculateStrategyPnL(strategy, prices, current) ==
    [i \in 1..Len(prices) |->
        [stockPrice |-> prices[i],
         pnl |-> StrategyTotalPnL(strategy.legs, 1, prices[i], current, Num(0))]]

\* The loop bound of createPnLDiagram: i = 0 .. 100.
DiagramSteps == 100

\* The P&L of one leg at one price, as createPnLDiagram's forEach body adds it.
DiagramLegPnL(leg, price, current) ==
    IF leg.type = "stock"
    THEN IF leg.action = "buy"
         THEN FMul[FSub[price, current], leg.quantity]
         ELSE FMul[FSub[current, price], leg.quantity]
    ELSE LET intrinsicValue ==
                 IF leg.type = "call"
                 THEN FMax[Num(0), FSub[price, leg.strike]]
                 ELSE FMax[Num(0), FSub[leg.strike, price]]
         IN  IF leg.action = "buy"
             THEN FMul[FMul[FSub[intrinsicValue, leg.premium], leg.quantity],
                       Num(100)]
             ELSE FMul[FMul[FSub[leg.premium, intrinsicValue], leg.quantity],
                       Num(100)]

RECURSIVE DiagramTotalPnL(_, _, _, _, _)
DiagramTotalPnL(ls, i, price, current, total) ==
    IF i > Len(ls) THEN total
    ELSE DiagramTotalPnL(ls, i + 1, price, current,
                         FAdd[total, DiagramLegPnL(ls[i], price, current)])

\* price = currentStockPrice - priceRange + (i / 100) * 2 * priceRange
DiagramPrice(i, current) ==
    LET priceRange == FMul[current, Dec(0, 5000, 0, 0)]
    IN  FAdd[FSub[current, priceRange],
             FMul[FMul[FDiv[Num(i), Num(100)], Num(2)], priceRange]]

\* createPnLDiagram(legs, currentStockPrice): the two arrays it fills before
\* drawing.
createPnLDiagram(ls, current) ==
    [stockPrices |-> [i \in 1..(DiagramSteps + 1) |-> DiagramPrice(i - 1, current)],
     pnlValues   |-> [i \in 1..(DiagramSteps + 1) |->
                        DiagramTotalPnL(ls, 1, DiagramPrice(i - 1, current),
                                        current, Num(0))]]

----------------------------------------------------------------------------
(* OptionsService.calculateBullCallSpread (strategy calculator).           *)

\* The values price takes in  for (price = from; price <= to; price += 1),
\* at most n of them: the first half of the loop, then the rest of it.
Sweep[price \in Numbers, to \in Numbers, n \in Nat] ==
    IF n = 0 \/ ~FLe(price, to) THEN <<>>
    ELSE IF n = 1 THEN <<price>>
    ELSE LET first == Sweep[price, to, n \div 2]
         IN  IF Len(first) < n \div 2 THEN first
             ELSE first \o Sweep[FAdd[first[n \div 2], Num(1)], to, n - n \div 2]

\* The loop runs once for each whole step between price and to.
PriceSweep(price, to) ==
    Sweep[price, to, IF FLe(price, to)
                     THEN MagOf(FSub[to, price]).h \div LIMB + 1 ELSE 0]

\* A faulty variant of the spread calculator: the chart leaves the short
\* call out.
calculateBullCallSpreadUncapped(ls, stockPrice) ==
    LET longStrike  == ls.longCall.strike
        shortStrike == ls.shortCall.strike
        netDebit    == FSub[ls.longCall.price, ls.shortCall.price]
        sweep == PriceSweep(FMul[stockPrice, Dec(0, 7000, 0, 0)],
                            FMul[stockPrice, Dec(1, 3000, 0, 0)])
        prices == [i \in 1..Len(sweep) |->
                     LET longValue == FMax[Num(0), FSub[sweep[i], longStrike]]
                     IN  [stockPrice |-> sweep[i],
                          pnl |-> FMul[FSub[longValue, netDebit], Num(100)]]]
    IN  [strategy  |-> "Bull Call Spread",
         maxProfit |-> FMul[FSub[FSub[shortStrike, longStrike], netDebit], Num(100)],
         maxLoss   |-> FMul[netDebit, Num(100)],
         breakeven |-> FAdd[longStrike, netDebit],
         pnlChart  |-> prices]

\* calculateBullCallSpread(legs, stockPrice)
calculateBullCallSpread(ls, stockPrice) ==
    LET longStrike  == ls.longCall.strike
        shortStrike == ls.shortCall.strike
        netDebit    == FSub[ls.longCall.price, ls.shortCall.price]
        sweep == PriceSweep(FMul[stockPrice, Dec(0, 7000, 0, 0)],
                            FMul[stockPrice, Dec(1, 3000, 0, 0)])
        prices == [i \in 1..Len(sweep) |->
                     LET longValue  == FMax[Num(0), FSub[sweep[i], longStrike]]
                         shortValue == FMax[Num(0), FSub[sweep[i], shortStrike]]
                     IN  [stockPrice |-> sweep[i],
                          pnl |-> FMul[FSub[FSub[longValue, shortValue], netDebit],
                                       Num(100)]]]
    IN  [strategy  |-> "Bull Call Spread",
         maxProfit |-> FMul[FSub[FSub[shortStrike, longStrike], netDebit], Num(100)],
         maxLoss   |-> FMul[netDebit, Num(100)],
         breakeven |-> FAdd[longStrike, netDebit],
         pnlChart  |-> prices]

----------------------------------------------------------------------------
(* Strategy evaluation as a state machine: legs are collected one by one,  *)
(* then POST /api/calculate-strategy-pnl and the browser's diagram evaluate *)
(* them.                                                                    *)

MaxLegs == 2

LegQuantities == {1, 2}
LegStrikes    == {18, 22}
LegPremiums   == {Dec(1, 5000, 0, 0)}
CurrentPrices == {10, 20}

\* The legs collectStrategyLegs can build: a stock leg has no strike and no
\* premium (parseFloat of an empty field is NaN).
StockLegs ==
    {[type |-> "stock", action |-> a, quantity |-> Num(q),
      strike |-> NaN, premium |-> NaN] :
        a \in {"buy", "sell"}, q \in LegQuantities}

OptionLegs ==
    {[type |-> t, action |-> a, quantity |-> Num(q),
      strike |-> Num(k), premium |-> c] :
        t \in {"call", "put"}, a \in {"buy", "sell"}, q \in LegQuantities,
        k \in LegStrikes, c \in LegPremiums}

\* The stockPrices arrays a caller posts.
PriceLists ==
    {<<>>, <<Num(15)>>, <<Num(25), Num(20), Num(15)>>,
     <<Num(19), Dec(21, 5000, 0, 0), Num(19)>>}

NoDiagram == [stockPrices |-> <<>>, pnlValues |-> <<>>]
NotCalculated == <<[stockPrice |-> NaN, pnl |-> NaN]>>

StrategyIdle ==
    /\ legs = <<>>
    /\ currentStockPrice = Num(20)
    /\ stockPrices = <<>>
    /\ pnlResult = NotCalculated
    /\ diagram = NoDiagram

StrategyInit ==
    /\ legs = <<>>
    /\ currentStockPrice \in {Num(c) : c \in CurrentPrices}
    /\ stockPrices = <<>>
    /\ pnlResult = NotCalculated
    /\ diagram = NoDiagram

\* One more .strategy-leg row is collected.
AddLeg ==
    /\ Len(legs) < MaxLegs
    /\ pnlResult = NotCalculated
    /\ diagram = NoDiagram
    /\ \E leg \in StockLegs \cup OptionLegs : legs' = Append(legs, leg)
    /\ UNCHANGED <<currentStockPrice, stockPrices, pnlResult, diagram, strategyRest>>

\* POST /api/calculate-strategy-pnl
CalculateStrategyPnL ==
    /\ pnlResult = NotCalculated
    /\ \E prices \in PriceLists :
         /\ stockPrices' = prices
         /\ pnlResult' = calculateStrategyPnL([legs |-> legs], prices,
                                              currentStockPrice)
    /\ UNCHANGED <<legs, currentStockPrice, diagram, strategyRest>>

\* renderStrategyAnalysis -> createPnLDiagram
CreatePnLDiagram ==
    /\ diagram = NoDiagram
    /\ diagram' = createPnLDiagram(legs, currentStockPrice)
    /\ UNCHANGED <<legs, currentStockPrice, stockPrices, pnlResult, strategyRest>>

----------------------------------------------------------------------------
(* The bull call spread, evaluated by the strategy calculator and by the   *)
(* generic evaluator.                                                      *)

LongStrikes   == {95, 100}
ShortStrikes  == {105, 110}
LongPremiums  == {5, 6}
ShortPremiums == {2, 3}
SpreadStockPrices == {100, 110}

SpreadInputs ==
    {[longCall  |-> [strike |-> Num(k1), price |-> Num(c1)],
      shortCall |-> [strike |-> Num(k2), price |-> Num(c2)]] :
        k1 \in LongStrikes, c1 \in LongPremiums,
        k2 \in ShortStrikes, c2 \in ShortPremiums}

\* The same position as the legs of an ad-hoc strategy.
SpreadAsStrategy(ls) ==
    [legs |-> <<[type |-> "call", action |-> "buy", quantity |-> Num(1),
                 strike |-> ls.longCall.strike, premium |-> ls.longCall.price],
                [type |-> "call", action |-> "sell", quantity |-> Num(1),
                 strike |-> ls.shortCall.strike, premium |-> ls.shortCall.price]>>]

NoAnalysis ==
    [strategy |-> "", maxProfit |-> NaN, maxLoss |-> NaN, breakeven |-> NaN,
     pnlChart |-> <<>>]

SpreadIdle ==
    /\ spreadLegs = [longCall  |-> [strike |-> Num(100), price |-> Num(5)],
                     shortCall |-> [strike |-> Num(110), price |-> Num(2)]]
    /\ spreadStockPrice = Num(100)
    /\ spreadAnalysis = NoAnalysis
    /\ spreadPnL = NotCalculated

SpreadInit ==
    /\ spreadLegs \in SpreadInputs
    /\ spreadStockPrice \in {Num(p) : p \in SpreadStockPrices}
    /\ spreadAnalysis = NoAnalysis
    /\ spreadPnL = NotCalculated

\* POST /api/options/strategy with strategy = 'bull_call_spread'
CalculateBullCallSpread ==
    /\ spreadAnalysis = NoAnalysis
    /\ spreadAnalysis' = calculateBullCallSpread(spreadLegs, spreadStockPrice)
    /\ UNCHANGED <<spreadLegs, spreadStockPrice, spreadPnL, spreadRest>>

\* POST /api/calculate-strategy-pnl for the same two legs, over the prices
\* of the calculator's chart.
CalculateSpreadPnL ==
    /\ spreadPnL = NotCalculated
    /\ spreadPnL' = calculateStrategyPnL(
                        SpreadAsStrategy(spreadLegs),
                        PriceSweep(FMul[spreadStockPrice, Dec(0, 7000, 0, 0)],
                                   FMul[spreadStockPrice, Dec(1, 3000, 0, 0)]),
                        spreadStockPrice)
    /\ UNCHANGED <<spreadLegs, spreadStockPrice, spreadAnalysis, spreadRest>>

----------------------------------------------------------------------------
(* The pricer and the two Greeks calculators, one call at a time.          *)

PricerArgs(S, K, T, r, sigma) ==
    {[S |-> S, K |-> K, T |-> T, r |-> r, sigma |-> sigma, optionType |-> ty] :
        ty \in {"call", "put"}}

\* Ordinary contracts around the money.
MarketInputs ==
    UNION {PricerArgs(Num(S), Num(100), T, Dec(0, 500, 0, 0), sigma) :
             S \in {90, 100, 110},
             T \in {Dec(0, 2500, 0, 0), Num(1)},
             sigma \in {Dec(0, 2000, 0, 0), Dec(0, 5000, 0, 0)}}

\* Large underlyings, at the money, with d2 = 0, and a contract deep in the
\* money.
LargeInputs ==
    PricerArgs(Num(2000), Num(2000), Num(1), Dec(0, 1250, 0, 0), Dec(0, 5000, 0, 0))
    \cup PricerArgs(Num(180), Num(100), Dec(0, 2500, 0, 0), Dec(0, 500, 0, 0),
                    Dec(0, 2000, 0, 0))

\* Contracts at expiry.
ExpiryInputs ==
    UNION {PricerArgs(Num(S), Num(100), Num(0), Dec(0, 500, 0, 0), Dec(0, 2000, 0, 0)) :
             S \in {90, 100, 110}}

\* Arguments outside the domain: S <= 0, K <= 0, sigma <= 0 or T < 0.
InvalidInputs ==
    UNION {PricerArgs(Num(S), Num(100), Num(1), Dec(0, 500, 0, 0), Dec(0, 2000, 0, 0)) :
             S \in {0, -1}}
    \cup UNION {PricerArgs(Num(100), Num(K), Num(1), Dec(0, 500, 0, 0), Dec(0, 2000, 0, 0)) :
             K \in {0, -100}}
    \cup PricerArgs(Num(100), Num(100), Num(1), Dec(0, 500, 0, 0), Num(0))
    \cup PricerArgs(Num(100), Num(100), Num(1), Dec(0, 500, 0, 0), FNeg[Dec(0, 2000, 0, 0)])
    \cup PricerArgs(Num(100), Num(100), FNeg[Num(1)], Dec(0, 500, 0, 0), Dec(0, 2000, 0, 0))

PricerInputs == MarketInputs \cup LargeInputs \cup ExpiryInputs \cup InvalidInputs

NotCalled == [op |-> "none", outcome |-> "none"]

PricerIdle ==
    /\ pricerInput = [S |-> Num(100), K |-> Num(100), T |-> Num(1),
                      r |-> Dec(0, 500, 0, 0), sigma |-> Dec(0, 2000, 0, 0),
                      optionType |-> "call"]
    /\ pricerOut = NotCalled

PricerInit ==
    /\ pricerInput \in PricerInputs
    /\ pricerOut = NotCalled

\* OptionsService.blackScholesPrice(S, K, T, r, sigma, optionType): it has
\* one way out, a return of the number computed.
BlackScholesPrice ==
    /\ pricerOut = NotCalled
    /\ LET a == pricerInput
       IN  pricerOut' = [op |-> "blackScholesPrice", outcome |-> "returned",
                         value |-> blackScholesPrice(a.S, a.K, a.T, a.r, a.sigma,
                                                     a.optionType)]
    /\ UNCHANGED <<pricerInput, pricerRest>>

\* OptionsService.blackScholes(S, K, T, r, sigma, optionType)
BlackScholes ==
    /\ pricerOut = NotCalled
    /\ LET a == pricerInput
       IN  pricerOut' = [op |-> "blackScholes", outcome |-> "returned",
                         value |-> blackScholes(a.S, a.K, a.T, a.r, a.sigma,
                                                a.optionType)]
    /\ UNCHANGED <<pricerInput, pricerRest>>

\* OptionsService.calculateGreeks, analytic
CalculateGreeks ==
    /\ pricerOut = NotCalled
    /\ LET a == pricerInput
       IN  pricerOut' = [op |-> "calculateGreeks", outcome |-> "returned",
                         value |-> calculateGreeks(a.S, a.K, a.T, a.r, a.sigma,
                                                   a.optionType)]
    /\ UNCHANGED <<pricerInput, pricerRest>>

\* OptionsService.calculateGreeks, by finite differences
CalculateGreeksFD ==
    /\ pricerOut = NotCalled
    /\ LET a == pricerInput
       IN  pricerOut' = [op |-> "calculateGreeksFD", outcome |-> "returned",
                         value |-> calculateGreeksFD(a.S, a.K, a.T, a.r, a.sigma,
                                                     a.optionType)]
    /\ UNCHANGED <<pricerInput, pricerRest>>

----------------------------------------------------------------------------
(* OptionsService.calculateImpliedVolatility, one loop iteration at a time. *)

tolerance == Dec(0, 1, 0, 0)
maxIterations == 100

\* theoreticalPrice and vega at the current iv.
IVTheoreticalPrice(a, sigma) ==
    blackScholesPrice(a.stockPrice, a.strike, a.timeToExpiry, a.interestRate,
                      sigma, a.optionType)

IVVega(a, sigma) ==
    calculateVega(a.stockPrice, a.strike, a.timeToExpiry, a.interestRate, sigma)

\* if (Math.abs(theoreticalPrice - optionPrice) < tolerance) break;
IVWithinTolerance(a, sigma) ==
    FLt(FAbs[FSub[IVTheoreticalPrice(a, sigma), a.optionPrice]], tolerance)

\* if (iv < 0.001) iv = 0.001; if (iv > 5.0) iv = 5.0;
IVClamp(candidate) ==
    LET low == IF FLt(candidate, Dec(0, 10, 0, 0)) THEN Dec(0, 10, 0, 0)
               ELSE candidate
    IN  IF FGt(low, Num(5)) THEN Num(5) ELSE low

\* iv = iv - (theoreticalPrice - optionPrice) / vega, then the clamps.
IVUpdate(a, sigma) ==
    IVClamp(FSub[sigma, FDiv[FSub[IVTheoreticalPrice(a, sigma), a.optionPrice],
                             IVVega(a, sigma)]])

IVArgs(optionPrice, S, T) ==
    {[optionPrice |-> optionPrice, stockPrice |-> Num(S), strike |-> Num(100),
      timeToExpiry |-> Num(T), interestRate |-> Dec(0, 500, 0, 0),
      optionType |-> ty] : ty \in {"call", "put"}}

IVInputs ==
    UNION {IVArgs(price, st[1], st[2]) :
             price \in {Dec(10, 4500, 0, 0), Num(200), Num(5)},
             st \in {<<100, 1>>, <<100, 0>>, <<110, 0>>}}

IVIdle ==
    /\ ivInput = [optionPrice |-> Num(5), stockPrice |-> Num(100),
                  strike |-> Num(100), timeToExpiry |-> Num(1),
                  interestRate |-> Dec(0, 500, 0, 0), optionType |-> "call"]
    /\ iv = Dec(0, 2000, 0, 0)
    /\ ivIteration = 0
    /\ ivExit = "none"
    /\ ivResult = <<>>

IVInit ==
    /\ ivInput \in IVInputs
    /\ iv = Dec(0, 2000, 0, 0)
    /\ ivIteration = 0
    /\ ivExit = "none"
    /\ ivResult = <<>>

\* One pass through the loop body that does not break.
IVIterate ==
    /\ ivExit = "none"
    /\ ivIteration < maxIterations
    /\ ~IVWithinTolerance(ivInput, iv)
    /\ iv' = IVUpdate(ivInput, iv)
    /\ ivIteration' = ivIteration + 1
    /\ UNCHANGED <<ivInput, ivExit, ivResult, ivRest>>

\* The pass that breaks, and the return after it.
IVBreak ==
    /\ ivExit = "none"
    /\ ivIteration < maxIterations
    /\ IVWithinTolerance(ivInput, iv)
    /\ ivExit' = "break"
    /\ ivResult' = <<iv>>
    /\ UNCHANGED <<ivInput, iv, ivIteration, ivRest>>

\* The loop condition fails at i = maxIterations, and the return after it.
IVExhaust ==
    /\ ivExit = "none"
    /\ ivIteration = maxIterations
    /\ ivExit' = "cap"
    /\ ivResult' = <<iv>>
    /\ UNCHANGED <<ivInput, iv, ivIteration, ivRest>>

----------------------------------------------------------------------------
(* InvestmentSimulator.runMonteCarloSimulation.                            *)

\* Values Math.random() can give: zero, the smallest and largest fractions
\* the numbers here can hold, and three in between.
RandomDraws ==
    {Num(0), Dec(0, 0, 0, 1), Dec(0, 2500, 0, 0), Dec(0, 5000, 0, 0),
     Dec(0, 7500, 0, 0), Dec(0, 9999, 9999, 9999)}

\* Every draw, zero included.
AllDraws == RandomDraws

\* while (u === 0) u = Math.random();  -- what u and v can be after the loops
NonZeroDraws == {u \in RandomDraws : ~FEq(u, Num(0))}

\* generateNormalRandom(mean, stdDev), given the u and v its loops ended with
generateNormalRandom(mean, stdDev, u, v) ==
    LET z == FMul[FSqrt[FMul[FNeg[Num(2)], FLog[u]]],
                  FCos[FMul[FMul[Num(2), PI], v]]]
    IN  FAdd[mean, FMul[z, stdDev]]

\* runMonteCarloSimulation(initialAmount, expectedReturn, volatility,
\* iterations), given the draws of each iteration
runMonteCarloSimulation(initialAmount, expectedReturn, volatility, iterations, draws) ==
    [i \in 1..iterations |->
        LET randomReturn == generateNormalRandom(expectedReturn, volatility,
                                                 draws[i][1], draws[i][2])
        IN  FMul[initialAmount, FAdd[Num(1), randomReturn]]]

MaxTrials == 2

MCInputs ==
    [initialAmount : {Num(1000), Dec(1234, 5600, 0, 0)},
     expectedReturn : {Num(0), Dec(0, 500, 0, 0)},
     volatility : {Num(0), Dec(0, 2000, 0, 0)},
     iterations : 0..MaxTrials]

MCIdle ==
    /\ mcInput = [initialAmount |-> Num(1000), expectedReturn |-> Num(0),
                  volatility |-> Num(0), iterations |-> 0]
    /\ mcResults = <<>>
    /\ mcDone = FALSE

MCInit ==
    /\ mcInput \in MCInputs
    /\ mcResults = <<>>
    /\ mcDone = FALSE

RunMonteCarloSimulation ==
    /\ ~mcDone
    /\ \E draws \in [1..mcInput.iterations -> NonZeroDraws \X NonZeroDraws] :
         mcResults' = runMonteCarloSimulation(mcInput.initialAmount,
                                              mcInput.expectedReturn,
                                              mcInput.volatility,
                                              mcInput.iterations, draws)
    /\ mcDone' = TRUE
    /\ UNCHANGED <<mcInput, mcRest>>

----------------------------------------------------------------------------
(* InvestmentSimulator.simulateFutureInvestment.                           *)

\* Math.floor
FFloor[x \in Numbers] ==
    IF ~IsFinite(x) \/ (x.h % LIMB = 0 /\ x.l = 0) THEN x
    ELSE IF x.s = 1 THEN Fin(1, Mag((x.h \div LIMB) * LIMB, 0))
    ELSE FSub[Fin(-1, Mag((x.h \div LIMB) * LIMB, 0)), Num(1)]

\* The value of a missing array element.
Undefined == [k |-> "undefined"]

\* array.length
Length(array) == Num(Len(array))

\* array[index] for a number index: undefined unless index is one of
\* 0 .. length - 1.
ArrayAt(array, index) ==
    IF IsFinite(index) /\ index.h % LIMB = 0 /\ index.l = 0
       /\ (index.s = 1 \/ IsZero(index)) /\ index.h \div LIMB < Len(array)
    THEN array[index.h \div LIMB + 1]
    ELSE Undefined

\* A value used as an operand of arithmetic: undefined becomes NaN.
ToNumber(x) == IF x = Undefined THEN NaN ELSE x

\* The value null.
Null == [k |-> "null"]

\* A string value.
Str(text) == [k |-> "string", text |-> text]

\* !x for a number, a string or a missing field
Not(x) ==
    \/ x = Undefined
    \/ x.k = "string" /\ x.text = ""
    \/ x.k \in {"fin", "inf", "nan"} /\ (IsNaN(x) \/ IsZero(x))

\* this.stockProfiles and this.volatilityProfiles of the constructor
stockProfiles ==
    [AAPL  |-> [volatility |-> Dec(0, 2400, 0, 0), expectedReturn |-> Dec(0, 1100, 0, 0),
                category |-> "tech"],
     MSFT  |-> [volatility |-> Dec(0, 2200, 0, 0), expectedReturn |-> Dec(0, 1000, 0, 0),
                category |-> "tech"],
     GOOGL |-> [volatility |-> Dec(0, 2600, 0, 0), expectedReturn |-> Dec(0, 1200, 0, 0),
                category |-> "tech"],
     AMZN  |-> [volatility |-> Dec(0, 3000, 0, 0), expectedReturn |-> Dec(0, 1300, 0, 0),
                category |-> "tech"],
     TSLA  |-> [volatility |-> Dec(0, 6500, 0, 0), expectedReturn |-> Dec(0, 1800, 0, 0),
                category |-> "growth"],
     META  |-> [volatility |-> Dec(0, 3500, 0, 0), expectedReturn |-> Dec(0, 1400, 0, 0),
                category |-> "tech"],
     NVDA  |-> [volatility |-> Dec(0, 4500, 0, 0), expectedReturn |-> Dec(0, 1600, 0, 0),
                category |-> "tech"],
     SPY   |-> [volatility |-> Dec(0, 1600, 0, 0), expectedReturn |-> Dec(0, 900, 0, 0),
                category |-> "index"],
     QQQ   |-> [volatility |-> Dec(0, 2000, 0, 0), expectedReturn |-> Dec(0, 1100, 0, 0),
                category |-> "index"]]

volatilityProfiles ==
    [conservative |-> [volatility |-> Dec(0, 800, 0, 0),
                       expectedReturn |-> Dec(0, 600, 0, 0)],
     moderate     |-> [volatility |-> Dec(0, 1500, 0, 0),
                       expectedReturn |-> Dec(0, 1000, 0, 0)],
     aggressive   |-> [volatility |-> Dec(0, 2500, 0, 0),
                       expectedReturn |-> Dec(0, 1200, 0, 0)],
     crypto       |-> [volatility |-> Dec(0, 8000, 0, 0),
                       expectedReturn |-> Dec(0, 2000, 0, 0)]]

\* getInvestmentProfile(symbol)
getInvestmentProfile(symbol) ==
    IF symbol \in DOMAIN stockProfiles THEN stockProfiles[symbol]
    ELSE IF symbol \in DOMAIN volatilityProfiles THEN volatilityProfiles[symbol]
    ELSE [volatility |-> Dec(0, 2000, 0, 0), expectedReturn |-> Dec(0, 800, 0, 0),
          category |-> "unknown"]

\* The iteration count simulateFutureInvestment passes.
SimulationIterations == 10000

\* vals repeated up to n elements.
Tile[vals \in Seq(Numbers), n \in Nat] ==
    [i \in 1..n |-> vals[((i - 1) % Len(vals)) + 1]]

\* runMonteCarloSimulation(initialAmount, expectedReturn, volatility,
\* iterations) when the draws of Math.random() repeat with the period of
\* cycle: equal draws give equal results, so one period is computed and
\* repeated.
runScenarios(initialAmount, expectedReturn, volatility, iterations, cycle) ==
    Tile[runMonteCarloSimulation(initialAmount, expectedReturn, volatility,
                                 Len(cycle), cycle),
         iterations]

\* The comparator (a, b) => a - b; sort takes a NaN result for 0.
CompareAscending(a, b) == FSub[a, b]

ComesBefore(a, b) == FLt(CompareAscending(a, b), Num(0))

ComesAfter(a, b) == FGt(CompareAscending(a, b), Num(0))

\* Array.prototype.sort under CompareAscending: the stable arrangement in
\* which no element comes after a later one (the elements before the first
\* one, those equal to it in their order, the elements after it).
SortedBy[array \in Seq(Numbers)] ==
    IF Len(array) <= 1 THEN array
    ELSE SortedBy[SelectSeq(array, LAMBDA x : ComesBefore(x, array[1]))]
         \o SelectSeq(array, LAMBDA x : ~ComesBefore(x, array[1])
                                        /\ ~ComesAfter(x, array[1]))
         \o SortedBy[SelectSeq(array, LAMBDA x : ComesAfter(x, array[1]))]

\* The array left as it was.
unsorted(scenarios) == scenarios

\* scenarios.sort((a, b) => a - b)
sortAscending(scenarios) == SortedBy[scenarios]

\* The two elements calculateConfidenceIntervals reads, given alpha.
ConfidenceBounds(sortedResults, alpha) ==
    [lower |-> ArrayAt(sortedResults,
                       FFloor[FMul[Length(sortedResults), FDiv[alpha, Num(2)]]]),
     upper |-> ArrayAt(sortedResults,
                       FFloor[FMul[Length(sortedResults),
                                   FSub[Num(1), FDiv[alpha, Num(2)]]]])]

\* The interval that cuts the confidence level itself, not its complement,
\* off the two ends.
calculateConfidenceIntervalsOfLevel(sortedResults, confidenceLevel) ==
    ConfidenceBounds(sortedResults, confidenceLevel)

\* calculateConfidenceIntervals(sortedResults, confidenceLevel)
calculateConfidenceIntervals(sortedResults, confidenceLevel) ==
    ConfidenceBounds(sortedResults, FSub[Num(1), confidenceLevel])

\* calculateMedian(sortedArray)
calculateMedian(sortedArray) ==
    IF Len(sortedArray) % 2 # 0
    THEN sortedArray[Len(sortedArray) \div 2 + 1]
    ELSE FDiv[FAdd[ToNumber(ArrayAt(sortedArray, Num(Len(sortedArray) \div 2 - 1))),
                   ToNumber(ArrayAt(sortedArray, Num(Len(sortedArray) \div 2)))],
              Num(2)]

\* estimateMaxDrawdown(volatility, timeHorizon)
estimateMaxDrawdown(volatility, timeHorizon) ==
    FMul[FMul[volatility, FSqrt[timeHorizon]], Num(2)]

\* The object simulateFutureInvestment returns.
SimulationReport(in, profile, timeHorizon, expectedReturn, volatility, sortedResults, confidenceIntervals) ==
    [initialAmount |-> in.initialAmount,
     symbol |-> in.symbol,
     days |-> in.days,
     projectedValue |->
        [expected |-> FMul[in.initialAmount, FAdd[Num(1), expectedReturn]],
         best |-> confidenceIntervals.upper,
         worst |-> confidenceIntervals.lower,
         median |-> calculateMedian(sortedResults)],
     returns |->
        [expected |-> FMul[expectedReturn, Num(100)],
         bestCase |-> FMul[FDiv[FSub[ToNumber(confidenceIntervals.upper),
                                     in.initialAmount], in.initialAmount],
                           Num(100)],
         worstCase |-> FMul[FDiv[FSub[ToNumber(confidenceIntervals.lower),
                                      in.initialAmount], in.initialAmount],
                            Num(100)]],
     riskMetrics |->
        [volatility |-> FMul[volatility, Num(100)],
         maxDrawdown |-> estimateMaxDrawdown(profile.volatility, timeHorizon),
         sharpeRatio |-> FDiv[expectedReturn, volatility]],
     scenarios |->
        [bull |-> FMul[in.initialAmount,
                       FAdd[FAdd[Num(1), expectedReturn], volatility]],
         bear |-> FMul[in.initialAmount,
                       FSub[FAdd[Num(1), expectedReturn], volatility]],
         neutral |-> FMul[in.initialAmount, FAdd[Num(1), expectedReturn]]]]

\* simulateFutureInvestment from the sorted array on; trials is the length
\* of the array runMonteCarloSimulation returned.
SimulationFromSorted(in, profile, timeHorizon, expectedReturn, volatility, trials, sortedResults) ==
    [trials |-> trials,
     sortedResults |-> sortedResults,
     result |-> SimulationReport(in, profile, timeHorizon, expectedReturn,
                                 volatility, sortedResults,
                                 calculateConfidenceIntervals(sortedResults,
                                                              in.confidenceLevel))]

SimulationFromScenarios(in, profile, timeHorizon, expectedReturn, volatility, scenarios) ==
    SimulationFromSorted(in, profile, timeHorizon, expectedReturn, volatility,
                         Len(scenarios), sortAscending(scenarios))

SimulationFromHorizon(in, profile, timeHorizon, cycle) ==
    SimulationFromScenarios(
        in, profile, timeHorizon,
        FMul[profile.expectedReturn, timeHorizon],
        FMul[profile.volatility, FSqrt[timeHorizon]],
        runScenarios(in.initialAmount,
                     FMul[profile.expectedReturn, timeHorizon],
                     FMul[profile.volatility, FSqrt[timeHorizon]],
                     SimulationIterations, cycle))

\* simulateFutureInvestment(initialAmount, symbol, days, confidenceLevel)
\* under the draws of cycle: the sorted array it works on and its result.
simulateFutureInvestment(in, cycle) ==
    SimulationFromHorizon(in, getInvestmentProfile(in.symbol),
                          FDiv[in.days, Num(365)], cycle)

CycleLength == 3

\* The non-zero draws in ascending order, taken round and round.
DrawAt(j) ==
    CHOOSE u \in NonZeroDraws :
        Cardinality({w \in NonZeroDraws : FLt(w, u)}) = j % Cardinality(NonZeroDraws)

\* The (u, v) pairs of one period of draws.
DrawCycles ==
    {[i \in 1..CycleLength |-> <<DrawAt(k + i), DrawAt(k + 2 * i)>>] : k \in 0..2}

SimInputs ==
    [initialAmount : {Num(1000), Dec(2500, 5000, 0, 0)},
     symbol : {"AAPL", "moderate", "XYZ"},
     days : {Num(30), Num(365)},
     confidenceLevel : {Dec(0, 6800, 0, 0), Dec(0, 9500, 0, 0), Dec(0, 9900, 0, 0)}]

NotSimulated == [trials |-> 0, sortedResults |-> <<>>]

SimIdle ==
    /\ simInput = [initialAmount |-> Num(1000), symbol |-> "AAPL", days |-> Num(30),
                   confidenceLevel |-> Dec(0, 6800, 0, 0)]
    /\ simRun = NotSimulated

SimInit ==
    /\ simInput \in SimInputs
    /\ simRun = NotSimulated

\* One call of simulateFutureInvestment.
SimulateFutureInvestment ==
    /\ simRun = NotSimulated
    /\ \E cycle \in DrawCycles : simRun' = simulateFutureInvestment(simInput, cycle)
    /\ UNCHANGED <<simInput, simRest>>

----------------------------------------------------------------------------
(* InvestmentSimulator: Value at Risk and Conditional Value at Risk.       *)

\* amount * (1 + expectedReturn + zScore * volatility) - amount
TailValue(amount, expectedReturn, volatility, zScore) ==
    FSub[FMul[amount, FAdd[Num(1), FAdd[expectedReturn, FMul[zScore, volatility]]]],
         amount]

\* The value at the upper end of the distribution.
calculateValueAtRiskUpside(amount, expectedReturn, volatility) ==
    TailValue(amount, expectedReturn, volatility, Dec(1, 6450, 0, 0))

\* calculateValueAtRisk(amount, expectedReturn, volatility)
calculateValueAtRisk(amount, expectedReturn, volatility) ==
    TailValue(amount, expectedReturn, volatility, FNeg[Dec(1, 6450, 0, 0)])

\* calculateConditionalVaR(amount, expectedReturn, volatility)
calculateConditionalVaR(amount, expectedReturn, volatility) ==
    TailValue(amount, expectedReturn, volatility, FNeg[Dec(2, 620, 0, 0)])

RiskInputs ==
    [amount : {Num(0), Num(10000), Dec(2500, 5000, 0, 0), FNeg[Num(1000)]},
     expectedReturn : {Dec(0, 800, 0, 0), Num(0), FNeg[Dec(0, 500, 0, 0)]},
     volatility : {Num(0), Dec(0, 2000, 0, 0), Dec(0, 8000, 0, 0),
                   FNeg[Dec(0, 1000, 0, 0)]}]

NotComputed == <<>>

RiskIdle ==
    /\ riskInput = [amount |-> Num(0), expectedReturn |-> Num(0), volatility |-> Num(0)]
    /\ riskVaR = NotComputed
    /\ riskCVaR = NotComputed

RiskInit ==
    /\ riskInput \in RiskInputs
    /\ riskVaR = NotComputed
    /\ riskCVaR = NotComputed

CalculateValueAtRisk ==
    /\ riskVaR = NotComputed
    /\ riskVaR' = <<calculateValueAtRisk(riskInput.amount, riskInput.expectedReturn,
                                         riskInput.volatility)>>
    /\ UNCHANGED <<riskInput, riskCVaR, riskRest>>

CalculateConditionalVaR ==
    /\ riskCVaR = NotComputed
    /\ riskCVaR' = <<calculateConditionalVaR(riskInput.amount, riskInput.expectedReturn,
                                             riskInput.volatility)>>
    /\ UNCHANGED <<riskInput, riskVaR, riskRest>>

----------------------------------------------------------------------------
(* OptionsService.analyzeStrategy.                                         *)

\* this.riskFreeRate
riskFreeRate == Dec(0, 500, 0, 0)

\* x || fallback for a number or a missing field
OrElse(x, fallback) ==
    IF x = Undefined \/ IsNaN(x) \/ IsZero(x) THEN fallback ELSE x

\* The leg analyzeStrategy returns for an 'option' leg: the leg with its
\* greeks and a premium.
AnalyzedOptionLeg(leg, stockPrice, timeToExpiry, sigma) ==
    [type |-> leg.type, optionType |-> leg.optionType, action |-> leg.action,
     quantity |-> leg.quantity, strike |-> leg.strike,
     impliedVolatility |-> leg.impliedVolatility,
     greeks |-> calculateGreeks(stockPrice, leg.strike, timeToExpiry, riskFreeRate,
                                sigma, leg.optionType.text),
     premium |-> OrElse(leg.premium,
                        blackScholesPrice(stockPrice, leg.strike, timeToExpiry,
                                          riskFreeRate, sigma, leg.optionType.text))]

\* The callback of legs.map
AnalyzedLeg(leg, stockPrice, timeToExpiry) ==
    IF leg.type = "option"
    THEN AnalyzedOptionLeg(leg, stockPrice, timeToExpiry,
                           OrElse(leg.impliedVolatility, Dec(0, 2500, 0, 0)))
    ELSE leg

\* calculateBreakevens(legs, stockPrice)
calculateBreakevens(ls, stockPrice) == <<>>

\* calculateMaxProfit(legs)
calculateMaxProfit(ls) == Str("Unlimited")

\* calculateMaxLoss(legs)
calculateMaxLoss(ls) == Str("Limited")

\* calculateProfitProbability(legs, stockPrice, timeToExpiry), given what
\* Math.random() returned
calculateProfitProbability(ls, stockPrice, timeToExpiry, random) ==
    FMul[random, Num(100)]

\* analyzeStrategy(legs, stockPrice, expirationDate), given the number of
\* days getDaysToExpiration computed from the clock and what Math.random()
\* returned
analyzeStrategy(ls, stockPrice, daysToExpiration, random) ==
    [legs |-> [i \in 1..Len(ls) |->
                  AnalyzedLeg(ls[i], stockPrice, FDiv[daysToExpiration, Num(365)])],
     breakevens |-> calculateBreakevens(ls, stockPrice),
     maxProfit |-> calculateMaxProfit(ls),
     maxLoss |-> calculateMaxLoss(ls),
     profitProbability |->
        calculateProfitProbability(ls, stockPrice,
                                   FDiv[daysToExpiration, Num(365)], random)]

MaxCalls == 2

\* The leg collectStrategyLegs pushes for one row of the strategy form.
FormLeg(row) ==
    [type |-> row.type,
     action |-> row.action,
     quantity |-> OrElse(row.quantity, Num(1)),
     strike |-> row.strike,
     premium |-> row.premium,
     optionType |-> IF row.type = "stock" THEN Null ELSE Str(row.type)]

\* The rows collectStrategyLegs keeps: stock rows and the rows with a strike
\* and a premium.
RowKept(row) == row.type = "stock" \/ (~Not(row.strike) /\ ~Not(row.premium))

\* collectStrategyLegs(), over the rows of the form as parseInt and
\* parseFloat read them.
collectStrategyLegs(rows) ==
    [i \in 1..Len(SelectSeq(rows, RowKept)) |-> FormLeg(SelectSeq(rows, RowKept)[i])]

\* The strategy forms: a debit call spread, a long stock position, a short
\* put next to a row without a premium.
StrategyForms ==
    {<<[type |-> "call", action |-> "buy", quantity |-> Num(1),
        strike |-> Num(100), premium |-> Num(5)],
       [type |-> "call", action |-> "sell", quantity |-> Num(1),
        strike |-> Num(110), premium |-> Num(2)]>>,
     <<[type |-> "stock", action |-> "buy", quantity |-> Num(3),
        strike |-> NaN, premium |-> NaN]>>,
     <<[type |-> "call", action |-> "buy", quantity |-> NaN,
        strike |-> Num(100), premium |-> NaN],
       [type |-> "put", action |-> "sell", quantity |-> Num(2),
        strike |-> Num(95), premium |-> Dec(1, 5000, 0, 0)]>>}

\* The legs the browser collects, and a call posted as an 'option' leg
\* without premium or volatility.
AnalysisLegs ==
    {collectStrategyLegs(rows) : rows \in StrategyForms}
    \cup {<<[type |-> "option", optionType |-> Str("call"), action |-> "buy",
             quantity |-> Num(1), strike |-> Num(100), premium |-> Undefined,
             impliedVolatility |-> Undefined]>>}

AnalysisInputs ==
    [legs : AnalysisLegs, stockPrice : {Num(100), Dec(104, 5000, 0, 0)}]

\* What getDaysToExpiration can give for one expiration date as the clock
\* moves on.
ClockDays == {Num(30), Num(29)}

AnalysisIdle ==
    /\ analysisInput = [legs |-> <<>>, stockPrice |-> Num(100)]
    /\ analysisRuns = <<>>

AnalysisInit ==
    /\ analysisInput \in AnalysisInputs
    /\ analysisRuns = <<>>

\* POST /api/analyze-options-strategy, once more with the same body.
AnalyzeStrategy ==
    /\ Len(analysisRuns) < MaxCalls
    /\ \E days \in ClockDays, random \in RandomDraws :
          analysisRuns' =
              Append(analysisRuns,
                     analyzeStrategy(analysisInput.legs, analysisInput.stockPrice,
                                     days, random))
    /\ UNCHANGED <<analysisInput, analysisRest>>

----------------------------------------------------------------------------
(* PortfolioService: positions of the in-memory portfolios, behind the     *)
(* /api/portfolio/position routes.                                         *)

\* String.prototype.toUpperCase on the symbols posted.
ToUpperCase(symbol) ==
    Str([AAPL |-> "AAPL", aapl |-> "AAPL", Aapl |-> "AAPL",
         MSFT |-> "MSFT", msft |-> "MSFT"][symbol.text])

defaultPortfolioId == "default"

\* The key getPortfolio looks up: the default parameter stands in for an
\* absent portfolioId.
PortfolioKey(portfolioId) ==
    IF portfolioId = Undefined THEN defaultPortfolioId ELSE portfolioId.text

\* getPortfolio(portfolioId) finds a portfolio.
HasPortfolio(ps, portfolioId) == PortfolioKey(portfolioId) \in DOMAIN ps

\* A thrown Error and a returned value.
Thrown(message) == [threw |-> TRUE, message |-> message]
Returned(ps, key) == [threw |-> FALSE, portfolios |-> ps, value |-> ps[key]]

\* findIndex over the outcomes of its test on each element, counted from 1;
\* 0 when no element passes.
FindIndex(passes) ==
    IF \E i \in 1..Len(passes) : passes[i]
    THEN CHOOSE i \in 1..Len(passes) :
            passes[i] /\ \A j \in 1..(i - 1) : ~passes[j]
    ELSE 0

\* p => p.symbol === symbol on each position
SymbolIs(positions, symbol) ==
    [i \in 1..Len(positions) |-> positions[i].symbol = symbol]

\* p => p.id === positionId on each position
IdIs(positions, positionId) ==
    [i \in 1..Len(positions) |-> positions[i].id = positionId]

\* A newPosition object that keeps the symbol as it was posted.
NewPositionAsPosted(position, now, suffix) ==
    [id |-> [time |-> now, suffix |-> suffix],
     symbol |-> position.symbol,
     quantity |-> position.quantity,
     purchasePrice |-> position.purchasePrice,
     createdAt |-> now,
     updatedAt |-> Undefined]

\* The newPosition object; the id is made of the time and a random suffix.
NewPosition(position, now, suffix) ==
    [id |-> [time |-> now, suffix |-> suffix],
     symbol |-> ToUpperCase(position.symbol),
     quantity |-> position.quantity,
     purchasePrice |-> position.purchasePrice,
     createdAt |-> now,
     updatedAt |-> Undefined]

\* The existing position after the average-cost update.
MergedPosition(existing, new, now) ==
    [existing EXCEPT
        !.quantity = FAdd[existing.quantity, new.quantity],
        !.purchasePrice =
            FDiv[FAdd[FMul[existing.quantity, existing.purchasePrice],
                      FMul[new.quantity, new.purchasePrice]],
                 FAdd[existing.quantity, new.quantity]],
        !.updatedAt = now]

\* The positions after addPosition, given the index findIndex returned.
PositionsWith(positions, index, new, now) ==
    IF index > 0
    THEN [positions EXCEPT ![index] = MergedPosition(@, new, now)]
    ELSE Append(positions, new)

\* addPosition that pushes the new position whatever the portfolio holds.
addPositionAlwaysPushed(ps, position, portfolioId, now, suffix) ==
    IF ~HasPortfolio(ps, portfolioId) THEN Thrown("Portfolio not found")
    ELSE IF Not(position.symbol) \/ Not(position.quantity) \/ Not(position.purchasePrice)
    THEN Thrown("Missing required position data: symbol, quantity, purchasePrice")
    ELSE Returned(
            [ps EXCEPT ![PortfolioKey(portfolioId)] =
                [positions |-> Append(@.positions, NewPosition(position, now, suffix)),
                 updatedAt |-> now]],
            PortfolioKey(portfolioId))

\* addPosition(position, portfolioId)
addPosition(ps, position, portfolioId, now, suffix) ==
    IF ~HasPortfolio(ps, portfolioId) THEN Thrown("Portfolio not found")
    ELSE IF Not(position.symbol) \/ Not(position.quantity) \/ Not(position.purchasePrice)
    THEN Thrown("Missing required position data: symbol, quantity, purchasePrice")
    ELSE Returned(
            [ps EXCEPT ![PortfolioKey(portfolioId)] =
                [positions |->
                    PositionsWith(
                        @.positions,
                        FindIndex(SymbolIs(@.positions, ToUpperCase(position.symbol))),
                        NewPosition(position, now, suffix), now),
                 updatedAt |-> now]],
            PortfolioKey(portfolioId))

\* positions.splice(index, 1)
Splice(positions, index) ==
    SubSeq(positions, 1, index - 1) \o SubSeq(positions, index + 1, Len(positions))

\* removePosition that updates the time stamp before it looks for the
\* position.
removePositionStampedFirst(ps, positionId, portfolioId, now) ==
    IF ~HasPortfolio(ps, portfolioId) THEN Thrown("Portfolio not found")
    ELSE IF FindIndex(IdIs(ps[PortfolioKey(portfolioId)].positions, positionId)) = 0
    THEN [threw |-> TRUE, message |-> "Position not found",
          portfolios |-> [ps EXCEPT ![PortfolioKey(portfolioId)].updatedAt = now]]
    ELSE Returned(
            [ps EXCEPT ![PortfolioKey(portfolioId)] =
                [positions |-> Splice(@.positions,
                                      FindIndex(IdIs(@.positions, positionId))),
                 updatedAt |-> now]],
            PortfolioKey(portfolioId))

\* removePosition(positionId, portfolioId)
removePosition(ps, positionId, portfolioId, now) ==
    IF ~HasPortfolio(ps, portfolioId) THEN Thrown("Portfolio not found")
    ELSE IF FindIndex(IdIs(ps[PortfolioKey(portfolioId)].positions, positionId)) = 0
    THEN Thrown("Position not found")
    ELSE Returned(
            [ps EXCEPT ![PortfolioKey(portfolioId)] =
                [positions |-> Splice(@.positions,
                                      FindIndex(IdIs(@.positions, positionId))),
                 updatedAt |-> now]],
            PortfolioKey(portfolioId))

\* The position after the allowed fields of updates are written to it.
UpdatedPosition(position, updates, now) ==
    [position EXCEPT
        !.quantity = IF updates.quantity # Undefined THEN updates.quantity ELSE @,
        !.purchasePrice =
            IF updates.purchasePrice # Undefined THEN updates.purchasePrice ELSE @,
        !.updatedAt = now]

\* updatePosition(positionId, updates, portfolioId)
updatePosition(ps, positionId, updates, portfolioId, now) ==
    IF ~HasPortfolio(ps, portfolioId) THEN Thrown("Portfolio not found")
    ELSE IF FindIndex(IdIs(ps[PortfolioKey(portfolioId)].positions, positionId)) = 0
    THEN Thrown("Position not found")
    ELSE Returned(
            [ps EXCEPT ![PortfolioKey(portfolioId)] =
                [positions |->
                    [@.positions EXCEPT
                        ![FindIndex(IdIs(ps[PortfolioKey(portfolioId)].positions, positionId))] =
                            UpdatedPosition(@, updates, now)],
                 updatedAt |-> now]],
            PortfolioKey(portfolioId))

\* The answer of a route to what the service call did: res.json(portfolio),
\* or status 400 with the message of the error caught.
RouteResponse(outcome) ==
    IF outcome.threw
    THEN [status |-> 400, error |-> outcome.message]
    ELSE [status |-> 200, body |-> outcome.value]

\* The portfolios after the call.
PortfoliosAfter(ps, outcome) ==
    IF "portfolios" \in DOMAIN outcome THEN outcome.portfolios ELSE ps

MaxRequests == 3
MaxClock == 1

PostedSymbols == {Undefined, Str("AAPL"), Str("aapl"), Str("MSFT")}
PostedQuantities == {Undefined, Num(10), Num(5)}
PostedPrices == {Undefined, Num(100), Num(130)}
PostedPositions ==
    [symbol : PostedSymbols, quantity : PostedQuantities, purchasePrice : PostedPrices]
PostedPortfolioIds == {Undefined, Str("default"), Str("portfolio_0")}
PostedUpdates ==
    [quantity : {Undefined, Num(-5)}, purchasePrice : {Undefined, Num(90)}]
IdSuffixes == {1, 2}
PostedPositionIds ==
    [time : 0..MaxClock, suffix : IdSuffixes]

NoRequest == [op |-> "none"]
NoResponse == [status |-> 0]

\* The constructor: the default portfolio, without positions.
PortfolioInit ==
    /\ portfolios = [id \in {defaultPortfolioId} |-> [positions |-> <<>>, updatedAt |-> 0]]
    /\ clock = 0
    /\ handled = 0
    /\ created = 0
    /\ request = NoRequest
    /\ response = NoResponse

PortfolioIdle == PortfolioInit

\* POST /api/portfolio/position
PostPosition ==
    /\ handled < MaxRequests
    /\ \E position \in PostedPositions, portfolioId \in PostedPortfolioIds,
          now \in clock..MaxClock, suffix \in IdSuffixes :
          /\ request' = [op |-> "addPosition", position |-> position,
                         portfolioId |-> portfolioId]
          /\ clock' = now
          /\ portfolios' = PortfoliosAfter(portfolios,
                              addPosition(portfolios, position, portfolioId, now, suffix))
          /\ response' = RouteResponse(
                              addPosition(portfolios, position, portfolioId, now, suffix))
    /\ handled' = handled + 1
    /\ UNCHANGED <<created, portfolioRest>>

\* PUT /api/portfolio/position/:positionId
PutPosition ==
    /\ handled < MaxRequests
    /\ \E positionId \in PostedPositionIds, updates \in PostedUpdates,
          portfolioId \in PostedPortfolioIds, now \in clock..MaxClock :
          /\ request' = [op |-> "updatePosition", positionId |-> positionId,
                         updates |-> updates, portfolioId |-> portfolioId]
          /\ clock' = now
          /\ portfolios' = PortfoliosAfter(portfolios,
                              updatePosition(portfolios, positionId, updates,
                                             portfolioId, now))
          /\ response' = RouteResponse(
                              updatePosition(portfolios, positionId, updates,
                                             portfolioId, now))
    /\ handled' = handled + 1
    /\ UNCHANGED <<created, portfolioRest>>

\* DELETE /api/portfolio/position/:positionId
DeletePosition ==
    /\ handled < MaxRequests
    /\ \E positionId \in PostedPositionIds, portfolioId \in PostedPortfolioIds,
          now \in clock..MaxClock :
          /\ request' = [op |-> "removePosition", positionId |-> positionId,
                         portfolioId |-> portfolioId]
          /\ clock' = now
          /\ portfolios' = PortfoliosAfter(portfolios,
                              removePosition(portfolios, positionId, portfolioId, now))
          /\ response' = RouteResponse(
                              removePosition(portfolios, positionId, portfolioId, now))
    /\ handled' = handled + 1
    /\ UNCHANGED <<created, portfolioRest>>

\* `portfolio_${Date.now()}`, the id createPortfolio gives at a time of the
\* clock.
PortfolioIdAt(now) ==
    [t \in 0..3 |-> <<"portfolio_0", "portfolio_1", "portfolio_2", "portfolio_3">>[t + 1]][now]

\* this.portfolios.set(id, portfolio)
MapSet(ps, id, portfolio) ==
    [k \in DOMAIN ps \cup {id} |-> IF k = id THEN portfolio ELSE ps[k]]

\* createPortfolio(name)
createPortfolio(ps, now) ==
    Returned(MapSet(ps, PortfolioIdAt(now), [positions |-> <<>>, updatedAt |-> now]),
             PortfolioIdAt(now))

\* The prices extractCurrentPrices finds in the market overview.
currentPrices == [AAPL |-> Dec(185, 2000, 0, 0), MSFT |-> Dec(378, 4500, 0, 0)]

\* The sum of the field of the first n records.
Total[records \in Seq([marketValue : Numbers, costBasis : Numbers]),
      field \in {"marketValue", "costBasis"}, n \in Nat] ==
    IF n = 0 THEN Num(0) ELSE FAdd[Total[records, field, n - 1], records[n][field]]

\* a > 0 ? (b / a) * 100 : 0
PercentOf(b, a) == IF FGt(a, Num(0)) THEN FMul[FDiv[b, a], Num(100)] ELSE Num(0)

\* The market value and the cost basis of each position.
Valued(positions) ==
    [i \in 1..Len(positions) |->
        [marketValue |-> FMul[positions[i].quantity,
                              OrElse(currentPrices[positions[i].symbol.text],
                                     positions[i].purchasePrice)],
         costBasis |-> FMul[positions[i].quantity, positions[i].purchasePrice]]]

\* One element of positionsWithPerformance.
PositionPerformance(position, valued, totalValue) ==
    [id |-> position.id, symbol |-> position.symbol,
     quantity |-> position.quantity, purchasePrice |-> position.purchasePrice,
     currentPrice |-> OrElse(currentPrices[position.symbol.text], position.purchasePrice),
     marketValue |-> valued.marketValue,
     costBasis |-> valued.costBasis,
     gainLoss |-> FSub[valued.marketValue, valued.costBasis],
     gainLossPercent |-> PercentOf(FSub[valued.marketValue, valued.costBasis],
                                   valued.costBasis),
     weight |-> PercentOf(valued.marketValue, totalValue)]

\* The performance of the positions, given their values and the totals.
PerformanceOf(positions, valued, totalValue, totalCost) ==
    [totalValue |-> totalValue,
     totalCost |-> totalCost,
     totalGainLoss |-> FSub[totalValue, totalCost],
     totalGainLossPercent |-> PercentOf(FSub[totalValue, totalCost], totalCost),
     positions |-> [i \in 1..Len(positions) |->
                      PositionPerformance(positions[i], valued[i], totalValue)]]

\* calculatePortfolioPerformance(portfolioId)
calculatePortfolioPerformance(ps, portfolioId) ==
    IF ~HasPortfolio(ps, portfolioId) \/ Len(ps[PortfolioKey(portfolioId)].positions) = 0
    THEN [totalValue |-> Num(0), totalCost |-> Num(0), totalGainLoss |-> Num(0),
          totalGainLossPercent |-> Num(0), positions |-> <<>>]
    ELSE PerformanceOf(
            ps[PortfolioKey(portfolioId)].positions,
            Valued(ps[PortfolioKey(portfolioId)].positions),
            Total[Valued(ps[PortfolioKey(portfolioId)].positions), "marketValue",
                  Len(ps[PortfolioKey(portfolioId)].positions)],
            Total[Valued(ps[PortfolioKey(portfolioId)].positions), "costBasis",
                  Len(ps[PortfolioKey(portfolioId)].positions)])

\* calculateAssetAllocation(portfolioId): the table by symbol and the total;
\* the positions of the model carry no asset type and no sector.
calculateAssetAllocation(ps, portfolioId) ==
    [bySymbol |->
        {[symbol |-> p.symbol, value |-> p.marketValue, weight |-> p.weight,
          quantity |-> p.quantity] :
            p \in {calculatePortfolioPerformance(ps, portfolioId).positions[i] :
                     i \in 1..Len(calculatePortfolioPerformance(ps, portfolioId).positions)}},
     totalValue |-> calculatePortfolioPerformance(ps, portfolioId).totalValue]

\* getPortfolioSummary(portfolioId): reading a property of the null
\* portfolio throws a TypeError.
getPortfolioSummary(ps, portfolioId) ==
    IF ~HasPortfolio(ps, portfolioId)
    THEN Thrown("TypeError")
    ELSE [threw |-> FALSE,
          value |->
            [portfolio |->
                [id |-> PortfolioKey(portfolioId),
                 positionsCount |-> Len(ps[PortfolioKey(portfolioId)].positions),
                 updatedAt |-> ps[PortfolioKey(portfolioId)].updatedAt],
             performance |-> calculatePortfolioPerformance(ps, portfolioId),
             allocation |-> calculateAssetAllocation(ps, portfolioId)]]

\* POST /api/portfolio
PostPortfolio ==
    /\ handled < MaxRequests
    /\ \E now \in clock..MaxClock :
          /\ request' = [op |-> "createPortfolio"]
          /\ clock' = now
          /\ portfolios' = createPortfolio(portfolios, now).portfolios
          /\ response' = RouteResponse(createPortfolio(portfolios, now))
    /\ handled' = handled + 1
    /\ created' = created + 1
    /\ UNCHANGED portfolioRest

\* GET /api/portfolio: an error is answered with status 500.
GetPortfolio ==
    /\ handled < MaxRequests
    /\ \E portfolioId \in PostedPortfolioIds, now \in clock..MaxClock :
          /\ request' = [op |-> "getPortfolioSummary", portfolioId |-> portfolioId]
          /\ clock' = now
          /\ response' =
                IF getPortfolioSummary(portfolios, portfolioId).threw
                THEN [status |-> 500, error |-> "Failed to fetch portfolio"]
                ELSE [status |-> 200,
                      body |-> getPortfolioSummary(portfolios, portfolioId).value]
    /\ handled' = handled + 1
    /\ UNCHANGED <<portfolios, created, portfolioRest>>

----------------------------------------------------------------------------
(* The daily summary kept by the server: the routes that read and refresh  *)
(* it, the scheduled generation and the generation at startup. Handlers    *)
(* run to their next await; what lies between two awaits is one step.      *)

\* What the stock service resolves to.
ServiceData(of) == {[k |-> "object", of |-> of]}

\* What the AI service resolves to: the completion, or the mock summary it
\* falls back to.
AISummaries == {[k |-> "object", of |-> "summary", mock |-> m] : m \in BOOLEAN}

\* new Date().toISOString() and its date part
IsoTimestamp == Str("timestamp")
IsoDate == Str("date")

\* The test of a GET route that generates on every request.
NeedsGenerationAlways(summary) == TRUE

\* !dailySummary, the test of the GET route
NeedsGeneration(summary) == summary = Null

\* A call of generateDailySummary that has reached its first await; owner
\* is the request that awaits it, 0 when nothing does.
NewGeneration(owner) ==
    [owner |-> owner, pc |-> "marketOverview",
     marketOverview |-> Undefined, earnings |-> Undefined]

\* The object generateDailySummary assigns to dailySummary.
SummaryObject(generation, summary) ==
    [date |-> IsoDate,
     timestamp |-> IsoTimestamp,
     summary |-> summary,
     marketData |-> generation.marketOverview,
     upcomingEarnings |-> generation.earnings]

MaxSummaryRequests == 2
MaxScheduledRuns == 1

\* let dailySummary = null, and the generation started at startup.
SummaryInit ==
    /\ dailySummary = Null
    /\ generations = <<NewGeneration(0)>>
    /\ summaryRequests = <<>>
    /\ scheduledRuns = 0

SummaryIdle == SummaryInit

\* GET /api/daily-summary up to its await, or to its answer when the
\* summary is there.
GetDailySummary ==
    /\ Len(summaryRequests) < MaxSummaryRequests
    /\ IF NeedsGeneration(dailySummary)
       THEN /\ generations' = Append(generations, NewGeneration(Len(summaryRequests) + 1))
            /\ summaryRequests' =
                  Append(summaryRequests,
                         [route |-> "GET /api/daily-summary", pc |-> "await",
                          generation |-> Len(generations) + 1,
                          response |-> NoResponse])
       ELSE /\ generations' = generations
            /\ summaryRequests' =
                  Append(summaryRequests,
                         [route |-> "GET /api/daily-summary", pc |-> "answered",
                          generation |-> 0,
                          response |-> [status |-> 200, body |-> dailySummary]])
    /\ UNCHANGED <<dailySummary, scheduledRuns>>
    /\ UNCHANGED summaryRest

\* POST /api/refresh-summary up to its await.
PostRefreshSummary ==
    /\ Len(summaryRequests) < MaxSummaryRequests
    /\ generations' = Append(generations, NewGeneration(Len(summaryRequests) + 1))
    /\ summaryRequests' =
          Append(summaryRequests,
                 [route |-> "POST /api/refresh-summary", pc |-> "await",
                  generation |-> Len(generations) + 1,
                  response |-> NoResponse])
    /\ UNCHANGED <<dailySummary, scheduledRuns>>
    /\ UNCHANGED summaryRest

\* The cron job of 8 AM: it starts a generation and awaits nothing.
ScheduledGeneration ==
    /\ scheduledRuns < MaxScheduledRuns
    /\ scheduledRuns' = scheduledRuns + 1
    /\ generations' = Append(generations, NewGeneration(0))
    /\ UNCHANGED <<dailySummary, summaryRequests>>
    /\ UNCHANGED summaryRest

\* generateDailySummary from the result of getMarketOverview to the await
\* of getEarningsCalendar.
ResumeWithMarketOverview ==
    /\ \E g \in 1..Len(generations), data \in ServiceData("marketOverview") :
          /\ generations[g].pc = "marketOverview"
          /\ generations' = [generations EXCEPT ![g].pc = "earnings",
                                                ![g].marketOverview = data]
    /\ UNCHANGED <<dailySummary, summaryRequests, scheduledRuns>>
    /\ UNCHANGED summaryRest

\* generateDailySummary from the result of getEarningsCalendar to the await
\* of aiService.generateDailySummary.
ResumeWithEarnings ==
    /\ \E g \in 1..Len(generations), data \in ServiceData("earnings") :
          /\ generations[g].pc = "earnings"
          /\ generations' = [generations EXCEPT ![g].pc = "summary",
                                                ![g].earnings = data]
    /\ UNCHANGED <<dailySummary, summaryRequests, scheduledRuns>>
    /\ UNCHANGED summaryRest

\* generateDailySummary from the result of the AI service to its return:
\* the assignment of dailySummary.
ResumeWithSummary ==
    /\ \E g \in 1..Len(generations), summary \in AISummaries :
          /\ generations[g].pc = "summary"
          /\ generations' = [generations EXCEPT ![g].pc = "resolved"]
          /\ dailySummary' = SummaryObject(generations[g], summary)
    /\ UNCHANGED <<summaryRequests, scheduledRuns>>
    /\ UNCHANGED summaryRest

\* An error out of one of the awaited calls: the catch block rethrows it.
GenerationThrows ==
    /\ \E g \in 1..Len(generations) :
          /\ generations[g].pc \in {"marketOverview", "earnings", "summary"}
          /\ generations' = [generations EXCEPT ![g].pc = "rejected"]
    /\ UNCHANGED <<dailySummary, summaryRequests, scheduledRuns>>
    /\ UNCHANGED summaryRest

\* What a route answers after its await.
AnswerAfterAwait(req, generation, summary) ==
    IF generation.pc = "rejected"
    THEN [status |-> 500,
          body |-> [error |-> IF req.route = "GET /api/daily-summary"
                              THEN "Failed to fetch daily summary"
                              ELSE "Failed to refresh summary"]]
    ELSE IF req.route = "GET /api/daily-summary"
    THEN [status |-> 200, body |-> summary]
    ELSE [status |-> 200,
          body |-> [message |-> "Summary refreshed successfully", summary |-> summary]]

\* A route from the end of its await to its answer.
AnswerSummaryRequest ==
    /\ \E r \in 1..Len(summaryRequests) :
          /\ summaryRequests[r].pc = "await"
          /\ generations[summaryRequests[r].generation].pc \in {"resolved", "rejected"}
          /\ summaryRequests' =
                [summaryRequests EXCEPT
                    ![r].pc = "answered",
                    ![r].response =
                        AnswerAfterAwait(summaryRequests[r],
                                         generations[summaryRequests[r].generation],
                                         dailySummary)]
    /\ UNCHANGED <<dailySummary, generations, scheduledRuns>>
    /\ UNCHANGED summaryRest

----------------------------------------------------------------------------
(* OptionsService.calculateStrategy and the calculators it dispatches to,  *)
(* behind POST /api/options/strategy.                                      *)

\* One element of the covered call's pnlChart: the body of the loop.
CoveredCallPoint(price, stockPrice, callStrike, callPremium) ==
    [stockPrice |-> price,
     pnl |-> FAdd[FMul[FSub[price, stockPrice], Num(100)],
                  FAdd[FMul[FMax[Num(0), FSub[price, callStrike]], Num(-100)],
                       FMul[callPremium, Num(100)]]],
     stockPnL |-> FMul[FSub[price, stockPrice], Num(100)],
     optionPnL |-> FAdd[FMul[FMax[Num(0), FSub[price, callStrike]], Num(-100)],
                        FMul[callPremium, Num(100)]]]

\* The covered call's pnlChart over the prices of the loop.
CoveredCallChart(sweep, stockPrice, callStrike, callPremium) ==
    [i \in 1..Len(sweep) |->
        CoveredCallPoint(sweep[i], stockPrice, callStrike, callPremium)]

\* calculateCoveredCall(legs, stockPrice), for legs that have a call.
calculateCoveredCall(ls, stockPrice) ==
    [strategy  |-> "Covered Call",
     maxProfit |-> FMul[FAdd[FSub[ls.call.strike, stockPrice], ls.call.price], Num(100)],
     maxLoss   |-> FMul[FSub[stockPrice, ls.call.price], Num(100)],
     breakeven |-> FSub[stockPrice, ls.call.price],
     pnlChart  |-> CoveredCallChart(
                       PriceSweep(FMul[stockPrice, Dec(0, 7000, 0, 0)],
                                  FMul[stockPrice, Dec(1, 3000, 0, 0)]),
                       stockPrice, ls.call.strike, ls.call.price)]

\* The strategies object of calculateStrategy: the property each name is
\* given.
strategies ==
    [covered_call     |-> "calculateCoveredCall",
     protective_put   |-> "calculateProtectivePut",
     bull_call_spread |-> "calculateBullCallSpread",
     bear_put_spread  |-> "calculateBearPutSpread",
     iron_condor      |-> "calculateIronCondor",
     butterfly        |-> "calculateButterfly",
     straddle         |-> "calculateStraddle",
     strangle         |-> "calculateStrangle"]

\* The calculators the class defines; any other property of this is
\* undefined.
CalculatorsDefined == {"calculateCoveredCall", "calculateBullCallSpread"}

\* strategies[strategy] is truthy.
Dispatches(strategy) ==
    strategy \in DOMAIN strategies /\ strategies[strategy] \in CalculatorsDefined

\* The legs the calculator reads are there.
LegsFit(method, ls) ==
    IF method = "calculateCoveredCall"
    THEN "call" \in DOMAIN ls
    ELSE {"longCall", "shortCall"} \subseteq DOMAIN ls

\* calculateStrategy(strategy, legs, stockPrice); reading a property of a
\* leg that is missing throws a TypeError.
calculateStrategy(strategy, ls, stockPrice) ==
    IF ~Dispatches(strategy) THEN [threw |-> FALSE, value |-> Null]
    ELSE IF ~LegsFit(strategies[strategy], ls)
    THEN [threw |-> TRUE, message |-> "TypeError"]
    ELSE IF strategies[strategy] = "calculateCoveredCall"
    THEN [threw |-> FALSE, value |-> calculateCoveredCall(ls, stockPrice)]
    ELSE [threw |-> FALSE, value |-> calculateBullCallSpread(ls, stockPrice)]

\* The answer of POST /api/options/strategy.
StrategyResponse(outcome) ==
    IF outcome.threw
    THEN [status |-> 500, body |-> [error |-> "Failed to calculate strategy"]]
    ELSE [status |-> 200, body |-> outcome.value]

CalcStrategies == DOMAIN strategies \cup {"collar"}

CoveredCallLegs ==
    {[call |-> [strike |-> Num(k), price |-> Num(c)]] : k \in {80, 100, 110}, c \in {0, 5}}

CalcLegs ==
    CoveredCallLegs
    \cup {[longCall  |-> [strike |-> Num(100), price |-> Num(5)],
           shortCall |-> [strike |-> Num(110), price |-> Num(2)]]}

CalcInputs ==
    [strategy : CalcStrategies, legs : CalcLegs, stockPrice : {Num(100), Num(50)}]

CalcIdle ==
    /\ calcInput = [strategy |-> "covered_call",
                    legs |-> [call |-> [strike |-> Num(100), price |-> Num(5)]],
                    stockPrice |-> Num(100)]
    /\ calcOut = NoResponse

CalcInit ==
    /\ calcInput \in CalcInputs
    /\ calcOut = NoResponse

\* POST /api/options/strategy
CalculateStrategy ==
    /\ calcOut = NoResponse
    /\ calcOut' = StrategyResponse(
                      calculateStrategy(calcInput.strategy, calcInput.legs,
                                        calcInput.stockPrice))
    /\ UNCHANGED <<calcInput, calcRest>>

----------------------------------------------------------------------------
(* POST /api/calculate-option-greeks.                                      *)

\* parseFloat of a number posted or of a missing field
ParseFloat(x) == IF x = Undefined THEN NaN ELSE x

\* The arguments the route calls calculateGreeks with.
GreeksArguments(body) ==
    [S |-> ParseFloat(body.stockPrice),
     K |-> ParseFloat(body.strike),
     T |-> ParseFloat(body.timeToExpiry),
     r |-> OrElse(ParseFloat(body.interestRate), Dec(0, 500, 0, 0)),
     sigma |-> ParseFloat(body.volatility),
     optionType |-> body.optionType.text]

\* The test of the route for its required parameters.
MissingGreeksParameters(body) ==
    \/ Not(body.stockPrice) \/ Not(body.strike) \/ Not(body.timeToExpiry)
    \/ Not(body.volatility) \/ Not(body.optionType)

\* The Greeks of the arguments.
GreeksOf(a) == calculateGreeks(a.S, a.K, a.T, a.r, a.sigma, a.optionType)

GreeksBodies ==
    [stockPrice : {Num(100), Num(110)},
     strike : {Num(100)},
     timeToExpiry : {Undefined, Dec(0, 2500, 0, 0), Num(1)},
     interestRate : {Undefined, Num(0), Dec(0, 500, 0, 0), Dec(0, 300, 0, 0),
                     FNeg[Dec(0, 100, 0, 0)]},
     volatility : {Dec(0, 2000, 0, 0), Dec(0, 3000, 0, 0)},
     optionType : {Str("call"), Str("put")}]

GreeksIdle ==
    /\ greeksBody = [stockPrice |-> Num(100), strike |-> Num(100),
                     timeToExpiry |-> Num(1), interestRate |-> Undefined,
                     volatility |-> Dec(0, 2000, 0, 0), optionType |-> Str("call")]
    /\ greeksCall = Undefined
    /\ greeksResponse = NoResponse

GreeksInit ==
    /\ greeksBody \in GreeksBodies
    /\ greeksCall = Undefined
    /\ greeksResponse = NoResponse

\* The route, for a body that has every required parameter.
PostCalculateOptionGreeks ==
    /\ greeksResponse = NoResponse
    /\ ~MissingGreeksParameters(greeksBody)
    /\ greeksCall' = GreeksArguments(greeksBody)
    /\ greeksResponse' = [status |-> 200, body |-> GreeksOf(GreeksArguments(greeksBody))]
    /\ UNCHANGED <<greeksBody, greeksRest>>

\* The route, for a body it rejects.
RejectCalculateOptionGreeks ==
    /\ greeksResponse = NoResponse
    /\ MissingGreeksParameters(greeksBody)
    /\ greeksResponse' = [status |-> 400, body |-> [error |-> "Missing required parameters"]]
    /\ UNCHANGED <<greeksBody, greeksCall, greeksRest>>

----------------------------------------------------------------------------
(* POST /api/simulate-future-investment.                                   *)

\* parseInt of a number posted or of a missing field
ParseInt(x) ==
    IF x = Undefined THEN NaN
    ELSE IF IsFinite(x) THEN Fin(x.s, Mag((x.h \div LIMB) * LIMB, 0))
    ELSE NaN

\* The destructuring default: confidenceLevel = 0.68 when the body has none.
DefaultTo(x, default) == IF x = Undefined THEN default ELSE x

\* The arguments the route calls simulateFutureInvestment with.
SimulationArguments(body) ==
    [initialAmount |-> ParseFloat(body.amount),
     symbol |-> ToUpperCase(body.symbol).text,
     days |-> ParseInt(body.days),
     confidenceLevel |-> ParseFloat(DefaultTo(body.confidenceLevel, Dec(0, 6800, 0, 0)))]

SimulationBodies ==
    [amount : {Num(1000)},
     symbol : {Str("AAPL"), Str("aapl"), Str("MSFT")},
     days : {Undefined, Num(30), Num(365)},
     confidenceLevel : {Undefined, Num(0), Dec(0, 9500, 0, 0), Num(1), Dec(1, 5000, 0, 0)}]

SimRouteIdle ==
    /\ simBody = [amount |-> Num(1000), symbol |-> Str("AAPL"), days |-> Num(30),
                  confidenceLevel |-> Undefined]
    /\ simOutcomes = <<>>
    /\ simResponse = NoResponse

SimRouteInit ==
    /\ simBody \in SimulationBodies
    /\ simOutcomes = <<>>
    /\ simResponse = NoResponse

\* The route, for a body that has amount, symbol and days; simOutcomes is
\* the sorted array the simulation read its percentiles from.
PostSimulateFutureInvestment ==
    /\ simResponse = NoResponse
    /\ ~(Not(simBody.amount) \/ Not(simBody.symbol) \/ Not(simBody.days))
    /\ \E cycle \in DrawCycles :
          /\ simOutcomes' =
                simulateFutureInvestment(SimulationArguments(simBody), cycle).sortedResults
          /\ simResponse' =
                [status |-> 200,
                 body |-> simulateFutureInvestment(SimulationArguments(simBody),
                                                   cycle).result]
    /\ UNCHANGED <<simBody, simRouteRest>>

\* The route, for a body it rejects.
RejectSimulateFutureInvestment ==
    /\ simResponse = NoResponse
    /\ Not(simBody.amount) \/ Not(simBody.symbol) \/ Not(simBody.days)
    /\ simResponse' =
          [status |-> 400,
           body |-> [error |-> "Missing required parameters: amount, symbol, days"]]
    /\ UNCHANGED <<simBody, simOutcomes, simRouteRest>>

----------------------------------------------------------------------------
(* The expiration dates of the mock options chain.                         *)
(* An instant is a number of hours since 2024-01-01T00:00Z, a day a number *)
(* of days since 2024-01-01, and a date string the number yyyymmdd, whose  *)
(* order is the order of the strings 'yyyy-mm-dd'.                         *)

CalendarYear == 2024
HoursPerDay == 24
MonthLengths == <<31, 29, 31, 30, 31, 30, 31, 31, 30, 31, 30, 31>>

\* The first day of month m (1 .. 12; 13 is the day after the year).
MonthStart[m \in 1..13] == IF m = 1 THEN 0 ELSE MonthStart[m - 1] + MonthLengths[m - 1]

\* getMonth() + 1 of a day.
MonthOf(day) == CHOOSE m \in 1..12 : MonthStart[m] <= day /\ day < MonthStart[m + 1]

\* getDay() of a day: 0 is Sunday; 2024-01-01 is a Monday.
getDay(day) == (day + 1) % 7

\* toISOString().split('T')[0] of an instant: its date in UTC.
DateString(instant) ==
    CalendarYear * 10000 + MonthOf(instant \div HoursPerDay) * 100
        + ((instant \div HoursPerDay) - MonthStart[MonthOf(instant \div HoursPerDay)] + 1)

\* new Date('yyyy-mm-dd'): midnight UTC of the date.
ParseDate(date) == (MonthStart[(date \div 100) % 100] + (date % 100) - 1) * HoursPerDay

\* The instant of the local time hour:00 of a local day, in a zone that is
\* zone hours ahead of UTC.
LocalTime(day, hour, zone) == day * HoursPerDay + hour - zone

\* The third Friday of month m: from the first of the month to the first
\* Friday, and 14 days on.
ThirdFriday(m) ==
    14 + CHOOSE day \in MonthStart[m]..(MonthStart[m] + 6) : getDay(day) = 5

\* [...new Set(dates)].sort()
SortedDates(dates) ==
    [i \in 1..Cardinality(dates) |->
        CHOOSE date \in dates : Cardinality({other \in dates : other < date}) = i - 1]

\* generateExpirationDates(), called at the instant now in the zone: eight
\* weekly dates from the Friday of the local week, at the local time of the
\* call, and the third Fridays of the next six months at local midnight.
generateExpirationDates(now, zone) ==
    LET today == (now + zone) \div HoursPerDay
        hour == (now + zone) % HoursPerDay
    IN  SortedDates(
            {DateString(LocalTime(today + (5 - getDay(today) + 7 * (i - 1)), hour, zone)) :
                i \in 1..8}
            \cup {DateString(LocalTime(ThirdFriday(MonthOf(today) + i), 0, zone)) :
                    i \in 1..6})

\* Math.ceil(a / b) for b > 0
CeilDiv(a, b) == -((-a) \div b)

\* getDaysToExpiration(expirationDate), called at the instant now
getDaysToExpiration(expirationDate, now) ==
    CeilDiv(ParseDate(expirationDate) - now, HoursPerDay)

\* The days and the hours of the day the chain is asked for, and the zones
\* of the server.
FirstDay == 7
MaxDays == 60
ChainHours == {0, 12, 23}
ChainZones == {-5, 0, 1}

ChainIdle ==
    /\ chainNow = FirstDay * HoursPerDay
    /\ chainZone = 0
    /\ chainExpirations = <<>>

ChainInit ==
    /\ chainNow \in {day * HoursPerDay + hour :
                        day \in FirstDay..(FirstDay + MaxDays - 1), hour \in ChainHours}
    /\ chainZone \in ChainZones
    /\ chainExpirations = <<>>

\* getMockOptionsChain(symbol) without an expiration: the dates of the
\* chain, each with its daysToExpiry; generateOptionsData prices every
\* option of a date with timeToExpiry = daysToExpiry / 365.
GetMockOptionsChain ==
    /\ chainExpirations = <<>>
    /\ chainExpirations' =
          [i \in 1..Len(generateExpirationDates(chainNow, chainZone)) |->
              [date |-> generateExpirationDates(chainNow, chainZone)[i],
               daysToExpiry |->
                   getDaysToExpiration(generateExpirationDates(chainNow, chainZone)[i],
                                       chainNow)]]
    /\ UNCHANGED <<chainNow, chainZone, chainRest>>

\* The components that are not part of the pricing core, at rest.
ServicesIdle ==
    SimIdle /\ RiskIdle /\ AnalysisIdle /\ PortfolioIdle /\ SummaryIdle

CoreIdle == StrategyIdle /\ SpreadIdle /\ PricerIdle /\ IVIdle /\ MCIdle

ToolsIdle == CalcIdle /\ GreeksIdle /\ SimRouteIdle /\ ChainIdle

----------------------------------------------------------------------------
(* Specifications.                                                         *)

InitPnL == StrategyInit /\ SpreadIdle /\ PricerIdle /\ IVIdle /\ MCIdle /\ ServicesIdle
    /\ ToolsIdle
NextPnL == AddLeg \/ CalculateStrategyPnL \/ CreatePnLDiagram
SpecPnL == InitPnL /\ [][NextPnL]_vars

InitSpread == StrategyIdle /\ SpreadInit /\ PricerIdle /\ IVIdle /\ MCIdle /\ ServicesIdle
    /\ ToolsIdle
NextSpread == CalculateBullCallSpread \/ CalculateSpreadPnL
SpecSpread == InitSpread /\ [][NextSpread]_vars

InitPricer == StrategyIdle /\ SpreadIdle /\ PricerInit /\ IVIdle /\ MCIdle /\ ServicesIdle
    /\ ToolsIdle
NextPricer == BlackScholesPrice \/ BlackScholes \/ CalculateGreeks \/ CalculateGreeksFD
SpecPricer == InitPricer /\ [][NextPricer]_vars

InitIV == StrategyIdle /\ SpreadIdle /\ PricerIdle /\ IVInit /\ MCIdle /\ ServicesIdle
    /\ ToolsIdle
NextIV == IVIterate \/ IVBreak \/ IVExhaust
SpecIV == InitIV /\ [][NextIV]_vars

InitMC == StrategyIdle /\ SpreadIdle /\ PricerIdle /\ IVIdle /\ MCInit /\ ServicesIdle
    /\ ToolsIdle
NextMC == RunMonteCarloSimulation
SpecMC == InitMC /\ [][NextMC]_vars

InitSim ==
    CoreIdle /\ SimInit /\ RiskIdle /\ AnalysisIdle /\ PortfolioIdle /\ SummaryIdle
    /\ ToolsIdle
NextSim == SimulateFutureInvestment
SpecSim == InitSim /\ [][NextSim]_vars

InitRisk ==
    CoreIdle /\ SimIdle /\ RiskInit /\ AnalysisIdle /\ PortfolioIdle /\ SummaryIdle
    /\ ToolsIdle
NextRisk == CalculateValueAtRisk \/ CalculateConditionalVaR
SpecRisk == InitRisk /\ [][NextRisk]_vars

InitAnalysis ==
    CoreIdle /\ SimIdle /\ RiskIdle /\ AnalysisInit /\ PortfolioIdle /\ SummaryIdle
    /\ ToolsIdle
NextAnalysis == AnalyzeStrategy
SpecAnalysis == InitAnalysis /\ [][NextAnalysis]_vars

InitPortfolio ==
    CoreIdle /\ SimIdle /\ RiskIdle /\ AnalysisIdle /\ PortfolioInit /\ SummaryIdle
    /\ ToolsIdle
NextPortfolio == PostPosition \/ PutPosition \/ DeletePosition
SpecPortfolio == InitPortfolio /\ [][NextPortfolio]_vars

\* The portfolio service with the routes that create and read portfolios.
NextPortfolios == PostPortfolio \/ PostPosition \/ GetPortfolio
SpecPortfolios == InitPortfolio /\ [][NextPortfolios]_vars

InitSummary ==
    CoreIdle /\ SimIdle /\ RiskIdle /\ AnalysisIdle /\ PortfolioIdle /\ SummaryInit
    /\ ToolsIdle
NextSummary ==
    \/ GetDailySummary
    \/ PostRefreshSummary
    \/ ScheduledGeneration
    \/ ResumeWithMarketOverview
    \/ ResumeWithEarnings
    \/ ResumeWithSummary
    \/ GenerationThrows
    \/ AnswerSummaryRequest
SpecSummary == InitSummary /\ [][NextSummary]_vars

InitCalc ==
    CoreIdle /\ ServicesIdle /\ CalcInit /\ GreeksIdle /\ SimRouteIdle /\ ChainIdle
NextCalc ==
    CalculateStrategy
SpecCalc == InitCalc /\ [][NextCalc]_vars

InitGreeks ==
    CoreIdle /\ ServicesIdle /\ CalcIdle /\ GreeksInit /\ SimRouteIdle /\ ChainIdle
NextGreeks ==
    PostCalculateOptionGreeks \/ RejectCalculateOptionGreeks
SpecGreeks == InitGreeks /\ [][NextGreeks]_vars

InitSimRoute ==
    CoreIdle /\ ServicesIdle /\ CalcIdle /\ GreeksIdle /\ SimRouteInit /\ ChainIdle
NextSimRoute ==
    PostSimulateFutureInvestment \/ RejectSimulateFutureInvestment
SpecSimRoute == InitSimRoute /\ [][NextSimRoute]_vars

InitChain ==
    CoreIdle /\ ServicesIdle /\ CalcIdle /\ GreeksIdle /\ SimRouteIdle /\ ChainInit
NextChain ==
    GetMockOptionsChain
SpecChain == InitChain /\ [][NextChain]_vars

----------------------------------------------------------------------------
(* Properties of the strategy evaluator.                                   *)

\* The per-leg profit as the contract words it: direction * (value - cost).
ContractLegPnL(leg, p, current) ==
    LET direction == IF leg.action = "buy" THEN Num(1) ELSE FNeg[Num(1)]
    IN  IF leg.type = "stock"
        THEN FMul[direction, FMul[FSub[p, current], leg.quantity]]
        ELSE LET intrinsic == IF leg.type = "call"
                              THEN FMax[Num(0), FSub[p, leg.strike]]
                              ELSE FMax[Num(0), FSub[leg.strike, p]]
             IN  FMul[direction,
                      FMul[FMul[FSub[intrinsic, leg.premium], leg.quantity],
                           Num(100)]]

RECURSIVE ContractTotalPnL(_, _, _)
ContractTotalPnL(ls, p, current) ==
    IF ls = <<>> THEN Num(0)
    ELSE FAdd[ContractLegPnL(ls[Len(ls)], p, current),
              ContractTotalPnL(SubSeq(ls, 1, Len(ls) - 1), p, current)]

\* C1: calculateStrategyPnL returns one {stockPrice, pnl} entry per input
\* price, in input order, whose pnl is the sum over the legs of the stock or
\* option profit of the leg; createPnLDiagram computes the same total at
\* each of its prices.
C1_StrategyPnLIsLegSum ==
    /\ pnlResult # NotCalculated =>
         /\ Len(pnlResult) = Len(stockPrices)
         /\ \A i \in 1..Len(stockPrices) :
              /\ pnlResult[i].stockPrice = stockPrices[i]
              /\ FEq(pnlResult[i].pnl,
                     ContractTotalPnL(legs, stockPrices[i], currentStockPrice))
    /\ diagram # NoDiagram =>
         LET server == calculateStrategyPnL([legs |-> legs], diagram.stockPrices,
                                            currentStockPrice)
         IN  /\ Len(diagram.pnlValues) = Len(diagram.stockPrices)
             /\ \A i \in 1..Len(diagram.stockPrices) :
                  /\ FEq(diagram.pnlValues[i], server[i].pnl)
                  /\ FEq(diagram.pnlValues[i],
                         ContractTotalPnL(legs, diagram.stockPrices[i],
                                          currentStockPrice))

\* A strategy of a stock leg and a sold option leg has been evaluated at
\* three prices and drawn.
C1_Witness ==
    /\ Len(legs) = 2
    /\ legs[1].type = "stock"
    /\ legs[2].type = "put" /\ legs[2].action = "sell"
    /\ Len(stockPrices) = 3
    /\ pnlResult # NotCalculated
    /\ Len(pnlResult) = 3
    /\ FLt(pnlResult[1].pnl, pnlResult[2].pnl)
    /\ diagram # NoDiagram

\* (max(0, min(p - K1, K2 - K1)) - (c1 - c2)) * 100
SpreadClosedForm(ls, p) ==
    FMul[FSub[FMax[Num(0), FMin[FSub[p, ls.longCall.strike],
                                FSub[ls.shortCall.strike, ls.longCall.strike]]],
              FSub[ls.longCall.price, ls.shortCall.price]],
         Num(100)]

ScenarioSpread ==
    [longCall  |-> [strike |-> Num(100), price |-> Num(5)],
     shortCall |-> [strike |-> Num(110), price |-> Num(2)]]

\* C2: for a bull call spread the P&L at every price p is
\* (max(0, min(p - K1, K2 - K1)) - (c1 - c2)) * 100, from calculateStrategyPnL
\* and from calculateBullCallSpread's pnlChart alike; the spread 100/5 -
\* 110/2 is worth +200 at 105.
C2_BullCallSpreadClosedForm ==
    /\ spreadAnalysis # NoAnalysis =>
         \A i \in 1..Len(spreadAnalysis.pnlChart) :
            LET e == spreadAnalysis.pnlChart[i]
            IN  /\ FEq(e.pnl, SpreadClosedForm(spreadLegs, e.stockPrice))
                /\ (spreadLegs = ScenarioSpread /\ e.stockPrice = Num(105))
                      => e.pnl = Num(200)
    /\ spreadPnL # NotCalculated =>
         \A i \in 1..Len(spreadPnL) :
            LET e == spreadPnL[i]
            IN  /\ FEq(e.pnl, SpreadClosedForm(spreadLegs, e.stockPrice))
                /\ (spreadLegs = ScenarioSpread /\ e.stockPrice = Num(105))
                      => e.pnl = Num(200)

\* The scenario spread has been evaluated both ways and both charts hold the
\* price 105.
C2_Witness ==
    /\ spreadLegs = ScenarioSpread
    /\ spreadAnalysis # NoAnalysis
    /\ spreadPnL # NotCalculated
    /\ \E i \in 1..Len(spreadAnalysis.pnlChart) :
          /\ spreadAnalysis.pnlChart[i].stockPrice = Num(105)
          /\ spreadAnalysis.pnlChart[i].pnl = Num(200)
    /\ \E i \in 1..Len(spreadPnL) :
          /\ spreadPnL[i].stockPrice = Num(105)
          /\ spreadPnL[i].pnl = Num(200)

----------------------------------------------------------------------------
(* Properties of the pricer and of the Greeks.                             *)

\* S > 0, K > 0, T > 0 and sigma > 0
ValidContract(a) ==
    /\ FGt(a.S, Num(0)) /\ FGt(a.K, Num(0))
    /\ FGt(a.T, Num(0)) /\ FGt(a.sigma, Num(0))

\* S <= 0, K <= 0, sigma <= 0 or T < 0
DomainViolation(a) ==
    \/ FLe(a.S, Num(0)) \/ FLe(a.K, Num(0))
    \/ FLe(a.sigma, Num(0)) \/ FLt(a.T, Num(0))

\* max(0, S - K) for a call, max(0, K - S) for a put
Intrinsic(a) ==
    IF a.optionType = "call" THEN FMax[Num(0), FSub[a.S, a.K]]
    ELSE FMax[Num(0), FSub[a.K, a.S]]

PriceReturned == pricerOut.op \in {"blackScholesPrice", "blackScholes"}

GreeksReturned == pricerOut.op \in {"calculateGreeks", "calculateGreeksFD"}

\* C3: at T = 0 either pricer returns the intrinsic value of the contract,
\* for every S > 0 and K > 0, S = K included; the result is never NaN.
C3_ExpiryReturnsIntrinsic ==
    (/\ PriceReturned
     /\ FEq(pricerInput.T, Num(0))
     /\ FGt(pricerInput.S, Num(0)) /\ FGt(pricerInput.K, Num(0)))
    => /\ pricerOut.outcome = "returned"
       /\ FEq(pricerOut.value, Intrinsic(pricerInput))

\* blackScholesPrice has returned NaN for a contract at expiry with S = K.
C3_ExpiryAtTheMoneyIsNaN ==
    /\ pricerOut.op = "blackScholesPrice"
    /\ FEq(pricerInput.T, Num(0))
    /\ pricerInput.S = Num(100) /\ pricerInput.K = Num(100)
    /\ IsNaN(pricerOut.value)

\* |(call - put) - (S - K exp(-r T))|
ParityGap(a) ==
    FAbs[FSub[FSub[blackScholesPrice(a.S, a.K, a.T, a.r, a.sigma, "call"),
                   blackScholesPrice(a.S, a.K, a.T, a.r, a.sigma, "put")],
              FSub[a.S, Discounted(a.K, a.r, a.T)]]]

\* |Phi(x) + Phi(-x) - 1|
SymmetryGap(x) == FAbs[FSub[FAdd[normalCDF(x), normalCDF(FNeg[x])], Num(1)]]

\* C4: for every valid contract the call price minus the put price is
\* S - K exp(-r T) within 1e-6, and the normal CDF of the pricer satisfies
\* Phi(x) + Phi(-x) = 1 at the d1 and d2 of the contract and at 0 (up to the
\* last two digits of the arithmetic).
C4_PutCallParity ==
    (pricerOut.op = "blackScholesPrice" /\ ValidContract(pricerInput))
    => /\ FLe(ParityGap(pricerInput), Dec(0, 0, 100, 0))
       /\ \A x \in {Num(0),
                     D1(pricerInput.S, pricerInput.K, pricerInput.T,
                        pricerInput.r, pricerInput.sigma),
                     D2(D1(pricerInput.S, pricerInput.K, pricerInput.T,
                           pricerInput.r, pricerInput.sigma),
                        pricerInput.T, pricerInput.sigma)} :
             FLe(SymmetryGap(x), Dec(0, 0, 0, 100))

\* blackScholesPrice has priced a valid contract whose call and put are
\* further than 1e-6 from parity.
C4_ParityBroken ==
    /\ pricerOut.op = "blackScholesPrice"
    /\ ValidContract(pricerInput)
    /\ FGt(ParityGap(pricerInput), Dec(0, 0, 100, 0))

\* C7: a call of a pricer or of a Greeks calculator with S <= 0, K <= 0,
\* sigma <= 0 or T < 0 ends in an explicit InvalidInput failure and returns
\* no number.
C7_DomainViolationIsRejected ==
    (pricerOut.op # "none" /\ DomainViolation(pricerInput))
    => pricerOut.outcome = "InvalidInput"

\* blackScholesPrice has returned a finite, negative price for a negative
\* volatility.
C7_NegativeVolatilityPriced ==
    /\ pricerOut.op = "blackScholesPrice"
    /\ FLt(pricerInput.sigma, Num(0))
    /\ pricerOut.outcome = "returned"
    /\ IsFinite(pricerOut.value)
    /\ FLt(pricerOut.value, Num(0))

\* delta in [0, 1] for a call, in [-1, 0] for a put
DeltaInRange(optionType, delta) ==
    IF optionType = "call"
    THEN FGe(delta, Num(0)) /\ FLe(delta, Num(1))
    ELSE FGe(delta, Num(-1)) /\ FLe(delta, Num(0))

Close(x, y) == FLe(FAbs[FSub[x, y]], Dec(0, 100, 0, 0))

\* C9: the finite-difference calculateGreeks reports theta, vega and rho in
\* the units of the analytic one (theta per day, vega and rho per percentage
\* point), so the two agree on a valid contract up to discretisation error.
C9_GreeksShareUnits ==
    (pricerOut.op = "calculateGreeksFD" /\ ValidContract(pricerInput))
    => LET analytic == calculateGreeks(pricerInput.S, pricerInput.K, pricerInput.T,
                                       pricerInput.r, pricerInput.sigma,
                                       pricerInput.optionType)
       IN  /\ Close(pricerOut.value.theta, analytic.theta)
           /\ Close(pricerOut.value.vega, analytic.vega)
           /\ Close(pricerOut.value.rho, analytic.rho)

\* The finite-difference calculateGreeks has returned a vega above 30 where
\* the analytic vega is below 1.
C9_VegaPerUnitVolatility ==
    /\ pricerOut.op = "calculateGreeksFD"
    /\ pricerInput.S = Num(100) /\ pricerInput.T = Num(1)
    /\ pricerInput.sigma = Dec(0, 2000, 0, 0)
    /\ ValidContract(pricerInput)
    /\ FGt(pricerOut.value.vega, Num(30))
    /\ FLt(calculateVega(pricerInput.S, pricerInput.K, pricerInput.T,
                         pricerInput.r, pricerInput.sigma), Num(100))

----------------------------------------------------------------------------
(* Properties of the implied-volatility solver.                            *)

\* 0.001 <= x <= 5.0
WithinClamp(x) == FGe(x, Dec(0, 10, 0, 0)) /\ FLe(x, Num(5))

\* C5: the volatility estimate lies in [0.001, 5.0] after every update and
\* so does the value returned, for every input; it is never NaN.
C5_EstimateWithinClamp ==
    /\ ivIteration > 0 => WithinClamp(iv)
    /\ ivResult # <<>> => WithinClamp(ivResult[1])

\* The solver has run out of iterations on a contract at expiry and
\* returned NaN.
C5_ReturnedNaN ==
    /\ ivExit = "cap"
    /\ FEq(ivInput.timeToExpiry, Num(0))
    /\ IsNaN(ivResult[1])

\* C6: when the loop ends at the iteration cap, what is returned carries
\* the estimate as sigma and converged = FALSE.
C6_CapReportsNonConvergence ==
    ivExit = "cap"
    => /\ {"sigma", "converged"} \subseteq DOMAIN ivResult[1]
       /\ ivResult[1].converged = FALSE

\* The solver has run out of iterations on a market price no volatility
\* reaches and has returned the bare number 5.0.
C6_CapReturnsBareNumber ==
    /\ ivExit = "cap"
    /\ ivIteration = maxIterations
    /\ ivInput.optionPrice = Num(200)
    /\ FGt(ivInput.timeToExpiry, Num(0))
    /\ ivResult = <<Num(5)>>

----------------------------------------------------------------------------
(* Properties of the Monte Carlo simulation.                               *)

\* C10: runMonteCarloSimulation(initialAmount, 0, 0, n) returns n outcomes,
\* each equal to initialAmount, whatever the draws of the Box-Muller step.
C10_ZeroVolatilityIsExact ==
    (/\ mcDone
     /\ FEq(mcInput.expectedReturn, Num(0))
     /\ FEq(mcInput.volatility, Num(0)))
    => /\ Len(mcResults) = mcInput.iterations
       /\ \A i \in 1..Len(mcResults) : FEq(mcResults[i], mcInput.initialAmount)

\* A simulation of MaxTrials trials with no return and no volatility has
\* run on 1234.56.
C10_Witness ==
    /\ mcDone
    /\ mcInput.expectedReturn = Num(0)
    /\ mcInput.volatility = Num(0)
    /\ mcInput.iterations = MaxTrials
    /\ mcInput.initialAmount = Dec(1234, 5600, 0, 0)
    /\ Len(mcResults) = MaxTrials
    /\ mcResults[MaxTrials] = Dec(1234, 5600, 0, 0)

----------------------------------------------------------------------------
(* Properties of the investment simulator.                                 *)

SimulationDone == simRun # NotSimulated

\* The whole part of a number that is not negative.
WholePart(x) == x.h \div LIMB

\* C11: simulateFutureInvestment runs exactly 10,000 trials, and the array
\* from which worst, best and median are read has 10,000 elements, each of
\* them <= its successor.
C11_TenThousandSortedOutcomes ==
    SimulationDone =>
        /\ simRun.trials = 10000
        /\ Len(simRun.sortedResults) = 10000
        /\ \A i \in 1..(Len(simRun.sortedResults) - 1) :
              FLe(simRun.sortedResults[i], simRun.sortedResults[i + 1])

\* A run whose outcomes were not all equal, so that sorting moved them.
C11_Witness ==
    /\ SimulationDone
    /\ FLt(simRun.sortedResults[1], simRun.sortedResults[Len(simRun.sortedResults)])
    /\ simRun.result.projectedValue.median = simRun.sortedResults[5000]

\* C12: calculateConfidenceIntervals(sorted, c) returns
\* lower = sorted[floor(n (1 - c) / 2)] and upper = sorted[floor(n (1 - (1 - c) / 2))]
\* for the array length n, and simulateFutureInvestment reports them as
\* projectedValue.worst and projectedValue.best.
C12_ConfidenceIntervalIndices ==
    SimulationDone =>
        LET sorted == simRun.sortedResults
            c == simInput.confidenceLevel
            lower == sorted[WholePart(FDiv[FMul[Num(Len(sorted)), FSub[Num(1), c]],
                                           Num(2)]) + 1]
            upper == sorted[WholePart(FMul[Num(Len(sorted)),
                                           FSub[Num(1), FDiv[FSub[Num(1), c], Num(2)]]])
                            + 1]
        IN  /\ calculateConfidenceIntervals(sorted, c) = [lower |-> lower, upper |-> upper]
            /\ simRun.result.projectedValue.worst = lower
            /\ simRun.result.projectedValue.best = upper

\* A 95% interval with the worst case strictly below the best case.
C12_Witness ==
    /\ SimulationDone
    /\ simInput.confidenceLevel = Dec(0, 9500, 0, 0)
    /\ simRun.result.projectedValue.worst = simRun.sortedResults[251]
    /\ simRun.result.projectedValue.best = simRun.sortedResults[9751]
    /\ FLt(simRun.result.projectedValue.worst, simRun.result.projectedValue.best)

----------------------------------------------------------------------------
(* Properties of the risk metrics.                                         *)

\* amount * (1 + expectedReturn - z * volatility) - amount
TailLoss(in, z) ==
    FSub[FMul[in.amount, FSub[FAdd[Num(1), in.expectedReturn], FMul[z, in.volatility]]],
         in.amount]

VaRScenario ==
    riskInput = [amount |-> Num(10000), expectedReturn |-> Dec(0, 800, 0, 0),
                 volatility |-> Dec(0, 2000, 0, 0)]

\* C13: calculateValueAtRisk returns
\* amount * (1 + expectedReturn - 1.645 * volatility) - amount and
\* calculateConditionalVaR the same with 2.062; for amount = 10000,
\* expectedReturn = 0.08 and volatility = 0.20 the VaR is -2490; and
\* CVaR <= VaR whenever amount >= 0 and volatility >= 0.
C13_ValueAtRisk ==
    /\ riskVaR # NotComputed =>
          /\ riskVaR[1] = TailLoss(riskInput, Dec(1, 6450, 0, 0))
          /\ VaRScenario => riskVaR[1] = Num(-2490)
    /\ riskCVaR # NotComputed =>
          riskCVaR[1] = TailLoss(riskInput, Dec(2, 620, 0, 0))
    /\ (/\ riskVaR # NotComputed
        /\ riskCVaR # NotComputed
        /\ FGe(riskInput.amount, Num(0))
        /\ FGe(riskInput.volatility, Num(0))) => FLe(riskCVaR[1], riskVaR[1])

\* The scenario, with both metrics computed.
C13_Witness ==
    /\ VaRScenario
    /\ riskVaR = <<Num(-2490)>>
    /\ riskCVaR = <<Num(-3324)>>

----------------------------------------------------------------------------
(* Properties of the strategy analysis.                                    *)

\* The curve the analysis is drawn with: createPnLDiagram over its legs.
AnalysisCurve(run) == createPnLDiagram(run.legs, analysisInput.stockPrice)

\* The P&L has opposite signs at the sample points i and i + 1.
SignChangeAt(curve, i) ==
    \/ FLt(curve.pnlValues[i], Num(0)) /\ FGt(curve.pnlValues[i + 1], Num(0))
    \/ FGt(curve.pnlValues[i], Num(0)) /\ FLt(curve.pnlValues[i + 1], Num(0))

SignChanges(curve) ==
    {i \in 1..(Len(curve.pnlValues) - 1) : SignChangeAt(curve, i)}

\* The price between the sample points i and i + 1 at which the line
\* through them is zero.
InterpolatedZero(curve, i) ==
    FSub[curve.stockPrices[i],
         FDiv[FMul[curve.pnlValues[i],
                   FSub[curve.stockPrices[i + 1], curve.stockPrices[i]]],
              FSub[curve.pnlValues[i + 1], curve.pnlValues[i]]]]

BreakevensOf(run, curve) ==
    /\ SignChanges(curve) # {} => run.breakevens # <<>>
    /\ \A i \in SignChanges(curve) :
          \E j \in 1..Len(run.breakevens) :
              run.breakevens[j] = InterpolatedZero(curve, i)

\* C14: for legs whose swept P&L curve changes sign, the analysis returns a
\* non-empty breakevens list that holds, for each pair of adjacent sample
\* points of opposite sign, the linearly interpolated price of zero P&L.
C14_BreakevensInterpolated ==
    \A n \in 1..Len(analysisRuns) :
        BreakevensOf(analysisRuns[n], AnalysisCurve(analysisRuns[n]))

\* An analysis of the call spread, whose curve crosses zero, without a
\* breakeven.
C14_NoBreakevenReported ==
    /\ Len(analysisRuns) >= 1
    /\ analysisInput.legs[1].type = "call"
    /\ SignChanges(AnalysisCurve(analysisRuns[1])) # {}
    /\ analysisRuns[1].breakevens = <<>>

\* A long call and a short call of the same quantity at a higher strike,
\* bought for a net premium.
IsDebitCallSpread(ls) ==
    /\ Len(ls) = 2
    /\ ls[1].type = "call" /\ ls[1].action = "buy"
    /\ ls[2].type = "call" /\ ls[2].action = "sell"
    /\ ls[1].quantity = ls[2].quantity
    /\ FLt(ls[1].strike, ls[2].strike)
    /\ FGt(ls[1].premium, ls[2].premium)

NetPremium(ls) == FSub[ls[1].premium, ls[2].premium]

\* The bounds of a debit call spread, per share or per contract of 100.
SpreadBounds(run, ls) ==
    /\ run.maxLoss \in {NetPremium(ls), FMul[NetPremium(ls), Num(100)]}
    /\ run.maxProfit \in
          {FSub[FSub[ls[2].strike, ls[1].strike], NetPremium(ls)],
           FMul[FSub[FSub[ls[2].strike, ls[1].strike], NetPremium(ls)], Num(100)]}

\* C15: the analysis reports maxProfit and maxLoss derived from the legs: for
\* a debit spread the numbers computed from strikes and premiums (maxLoss =
\* net premium paid), and an unbounded sentinel only when the position is
\* unbounded.
C15_BoundsDerivedFromLegs ==
    \A n \in 1..Len(analysisRuns) :
        IsDebitCallSpread(analysisInput.legs) =>
            SpreadBounds(analysisRuns[n], analysisInput.legs)

\* An analysis of the debit spread that reports the two fixed words.
C15_PlaceholderBounds ==
    /\ Len(analysisRuns) >= 1
    /\ IsDebitCallSpread(analysisInput.legs)
    /\ analysisRuns[1].maxProfit = Str("Unlimited")
    /\ analysisRuns[1].maxLoss = Str("Limited")

\* C16: two invocations of analyzeStrategy with equal arguments return equal
\* results; in particular profitProbability is the same on every call with
\* the same legs, stock price and expiration.
C16_EqualArgumentsEqualResults ==
    \A n, m \in 1..Len(analysisRuns) :
        /\ analysisRuns[n] = analysisRuns[m]
        /\ analysisRuns[n].profitProbability = analysisRuns[m].profitProbability

\* Two analyses of the same body with different profit probabilities.
C16_ProfitProbabilityDiffers ==
    /\ Len(analysisRuns) = 2
    /\ analysisRuns[1].profitProbability # analysisRuns[2].profitProbability

----------------------------------------------------------------------------
(* Portfolio positions.                                                    *)

\* The positions of the portfolio a request names, in a given collection.
PositionsOf(ps, req) == ps[PortfolioKey(req.portfolioId)].positions

\* A position of the symbol is held, whatever the case the symbol is
\* written in.
Held(positions, symbol) ==
    \E i \in 1..Len(positions) : positions[i].symbol = ToUpperCase(symbol)

\* The average purchase price of two lots.
AveragePrice(q1, p1, q2, p2) ==
    FDiv[FAdd[FMul[q1, p1], FMul[q2, p2]], FAdd[q1, q2]]

\* What a successful addPosition of the lot does to the positions.
AddedTo(before, after, lot) ==
    IF Held(before, lot.symbol)
    THEN /\ Len(after) = Len(before)
         /\ \A i \in 1..Len(before) :
               IF before[i].symbol = ToUpperCase(lot.symbol)
               THEN /\ after[i].id = before[i].id
                    /\ after[i].symbol = before[i].symbol
                    /\ after[i].quantity = FAdd[before[i].quantity, lot.quantity]
                    /\ after[i].purchasePrice =
                          AveragePrice(before[i].quantity, before[i].purchasePrice,
                                       lot.quantity, lot.purchasePrice)
               ELSE after[i] = before[i]
    ELSE /\ Len(after) = Len(before) + 1
         /\ SubSeq(after, 1, Len(before)) = before
         /\ after[Len(after)].symbol = ToUpperCase(lot.symbol)
         /\ after[Len(after)].quantity = lot.quantity
         /\ after[Len(after)].purchasePrice = lot.purchasePrice

\* C17: a successful addPosition for a symbol already held, in whatever
\* case it is written, adds no entry: the position count is unchanged, the
\* existing position keeps its id, its quantity becomes q1 + q2 and its
\* purchasePrice (q1*p1 + q2*p2)/(q1 + q2), and every other position is
\* unchanged; for a symbol not held exactly one position is appended.
C17_AddPositionMergesHeldSymbol ==
    [][(request'.op = "addPosition" /\ response'.status = 200) =>
          AddedTo(PositionsOf(portfolios, request'),
                  PositionsOf(portfolios', request'),
                  request'.position)]_vars

\* A lot of 5 at 130 posted as "aapl" was merged into the position of 10
\* AAPL at 100, next to another position.
C17_Witness ==
    /\ request.op = "addPosition"
    /\ response.status = 200
    /\ request.position.symbol = Str("aapl")
    /\ Len(portfolios[defaultPortfolioId].positions) = 2
    /\ \E i \in 1..2 :
          /\ portfolios[defaultPortfolioId].positions[i].symbol = Str("AAPL")
          /\ portfolios[defaultPortfolioId].positions[i].quantity = Num(15)
          /\ portfolios[defaultPortfolioId].positions[i].purchasePrice = Num(110)

\* The portfolio id of the request names no portfolio.
UnknownPortfolio(req) == ~HasPortfolio(portfolios, req.portfolioId)

\* The position id of the request names no position of its portfolio.
UnknownPosition(req) ==
    \A i \in 1..Len(PositionsOf(portfolios, req)) :
        PositionsOf(portfolios, req)[i].id # req.positionId

\* A field addPosition requires is missing from the position posted.
MissingData(position) ==
    \/ position.symbol = Undefined
    \/ position.quantity = Undefined
    \/ position.purchasePrice = Undefined

\* The answer of the route to a failed call.
Failure(message) == [status |-> 400, error |-> message]

\* What the claim says of the request req, answered by resp.
FailsAsSpecified(req, resp) ==
    /\ UnknownPortfolio(req) => resp = Failure("Portfolio not found")
    /\ (~UnknownPortfolio(req) /\ req.op \in {"updatePosition", "removePosition"}
            /\ UnknownPosition(req))
          => resp = Failure("Position not found")
    /\ (~UnknownPortfolio(req) /\ req.op = "addPosition" /\ MissingData(req.position))
          => resp.status = 400 /\ resp.error # ""
    /\ resp.status \in {200, 400}
    /\ resp.status = 400 => UNCHANGED portfolios

\* C18: addPosition, updatePosition and removePosition fail with 'Portfolio
\* not found' for an unknown portfolioId and (the latter two) with 'Position
\* not found' for an unknown positionId; addPosition fails when symbol,
\* quantity or purchasePrice is missing; a failing call modifies no
\* portfolio (positions and updatedAt unchanged) and its route answers 400
\* with the message of the error.
C18_FailingCallsModifyNothing ==
    [][FailsAsSpecified(request', response')]_vars

\* A PUT or DELETE for a position id that is not in a portfolio holding a
\* position was answered 400 'Position not found', at a later time than the
\* portfolio's last update.
C18_Witness ==
    /\ request.op \in {"updatePosition", "removePosition"}
    /\ response = Failure("Position not found")
    /\ Len(portfolios[defaultPortfolioId].positions) > 0
    /\ clock > portfolios[defaultPortfolioId].updatedAt

----------------------------------------------------------------------------
(* The daily summary under concurrent requests.                            *)

\* A summary with every one of its five parts in place.
Complete(summary) ==
    /\ summary # Null
    /\ summary # Undefined
    /\ DOMAIN summary = {"date", "timestamp", "summary", "marketData", "upcomingEarnings"}
    /\ \A part \in DOMAIN summary : summary[part] \notin {Null, Undefined}

\* The summary a 200 answer of the route carries.
SummaryCarried(req) ==
    IF req.route = "GET /api/daily-summary"
    THEN req.response.body
    ELSE req.response.body.summary

\* Every 200 answer given so far carries a complete summary.
AnswersComplete ==
    \A r \in 1..Len(summaryRequests) :
        (summaryRequests[r].pc = "answered" /\ summaryRequests[r].response.status = 200)
            => Complete(SummaryCarried(summaryRequests[r]))

\* The step is the arrival of a GET /api/daily-summary request.
GetArrives ==
    /\ Len(summaryRequests') = Len(summaryRequests) + 1
    /\ summaryRequests'[Len(summaryRequests')].route = "GET /api/daily-summary"

\* What the claim says of a step.
SummaryStep ==
    /\ dailySummary # Null => dailySummary' # Null
    /\ (GetArrives /\ dailySummary # Null) =>
          /\ generations' = generations
          /\ summaryRequests'[Len(summaryRequests')].response =
                [status |-> 200, body |-> dailySummary]
    /\ (GetArrives /\ dailySummary = Null) =>
          /\ Len(generations') = Len(generations) + 1
          /\ summaryRequests'[Len(summaryRequests')].pc = "await"

\* C19: GET /api/daily-summary answers with the cached summary when there
\* is one and generates one first only when the cache is empty; whatever the
\* interleaving of GET requests, POST /api/refresh-summary requests and the
\* scheduled generation, a 200 answer carries a complete non-null summary,
\* the cache never returns to empty once filled, and a GET request arriving
\* while the cache is filled starts no generation.
C19_SummaryCacheUnderInterleaving ==
    []AnswersComplete /\ [][SummaryStep]_vars

\* A GET was answered from the cache while a refresh and the scheduled
\* generation were in flight, and the refresh then replaced the summary the
\* GET had carried.
C19_Witness ==
    /\ Len(summaryRequests) = 2
    /\ summaryRequests[1].route = "POST /api/refresh-summary"
    /\ summaryRequests[1].response.status = 200
    /\ summaryRequests[2].route = "GET /api/daily-summary"
    /\ summaryRequests[2].generation = 0
    /\ summaryRequests[2].response.status = 200
    /\ summaryRequests[2].response.body # dailySummary
    /\ scheduledRuns = 1
    /\ \E g \in 1..Len(generations) :
          generations[g].owner = 0 /\ generations[g].pc = "summary"

----------------------------------------------------------------------------
(* Finite-difference theta close to expiry.                                *)

\* 0 <= T < 0.001: the backward step in time leaves the domain.
WithinTimeStepOfExpiry(T) == FGe(T, Num(0)) /\ FLt(T, Dec(0, 10, 0, 0))

\* C20: the finite-difference calculateGreeks never prices at a negative
\* time to expiry, so the theta it returns is not NaN for 0 <= T < 0.001.
C20_ThetaGuardedNearExpiry ==
    (pricerOut.op = "calculateGreeksFD" /\ WithinTimeStepOfExpiry(pricerInput.T))
    => ~IsNaN(pricerOut.value.theta)

\* At expiry, for a call in the money whose price is a number, the theta
\* returned is NaN: the pricer was called with T - dt = -0.001.
C20_ThetaIsNaNAtExpiry ==
    /\ pricerOut.op = "calculateGreeksFD"
    /\ pricerInput.T = Num(0)
    /\ pricerInput.S = Num(110)
    /\ pricerInput.optionType = "call"
    /\ ~IsNaN(pricerOut.value.price)
    /\ IsNaN(blackScholes(pricerInput.S, pricerInput.K,
                          FSub[pricerInput.T, Dec(0, 10, 0, 0)],
                          pricerInput.r, pricerInput.sigma, pricerInput.optionType))
    /\ IsNaN(pricerOut.value.theta)

----------------------------------------------------------------------------
(* Properties of the strategy calculators.                                 *)

\* The calculator of the covered call has answered, for a stock price and a
\* strike above zero and a premium that is not negative.
CoveredCallAnswered ==
    /\ calcOut.status = 200
    /\ calcInput.strategy = "covered_call"
    /\ FGt(calcInput.stockPrice, Num(0))
    /\ FGt(calcInput.legs.call.strike, Num(0))
    /\ FGe(calcInput.legs.call.price, Num(0))

\* The P&L of the covered call at the breakeven the calculator reported.
PnLAtBreakeven ==
    CoveredCallPoint(calcOut.body.breakeven, calcInput.stockPrice,
                     calcInput.legs.call.strike, calcInput.legs.call.price).pnl

\* C21: calculateCoveredCall reports breakeven = stockPrice - callPremium,
\* and the P&L of the covered call at that price is zero for every stock
\* price > 0, strike > 0 and premium >= 0.
C21_CoveredCallBreakevenIsZero ==
    CoveredCallAnswered =>
        /\ calcOut.body.breakeven =
              FSub[calcInput.stockPrice, calcInput.legs.call.price]
        /\ IsZero(PnLAtBreakeven)

\* The call struck at 80 on a stock at 100, sold for 5: the breakeven
\* reported is 95, where the position has lost 1500.
C21_LossAtReportedBreakeven ==
    /\ CoveredCallAnswered
    /\ calcInput.stockPrice = Num(100)
    /\ calcInput.legs.call = [strike |-> Num(80), price |-> Num(5)]
    /\ calcOut.body.breakeven = Num(95)
    /\ PnLAtBreakeven = Num(-1500)

\* C28: calculateStrategy returns a non-null analysis with a pnlChart for
\* every strategy name of its dispatch table, and null only for a name that
\* is not in the table.
C28_EveryListedStrategyIsCalculated ==
    (calcOut.status = 200 /\ calcInput.strategy \in DOMAIN strategies)
        => (calcOut.body # Null /\ "pnlChart" \in DOMAIN calcOut.body)

\* calculateStrategy has returned null for a name of the table.
C28_ListedStrategyReturnsNull ==
    /\ calcOut.status = 200
    /\ calcInput.strategy = "iron_condor"
    /\ calcOut.body = Null

----------------------------------------------------------------------------
(* The interest rate of the Greeks route.                                  *)

\* C22: POST /api/calculate-option-greeks passes the interestRate posted to
\* calculateGreeks for every real value, 0 and negative rates included, and
\* passes the default 0.05 only when the request has no interestRate.
C22_InterestRatePassedThrough ==
    greeksResponse.status = 200 =>
        greeksCall.r = IF greeksBody.interestRate = Undefined
                       THEN Dec(0, 500, 0, 0)
                       ELSE greeksBody.interestRate

\* A request with interestRate 0 was priced at the rate 0.05.
C22_ZeroRateReplacedByDefault ==
    /\ greeksResponse.status = 200
    /\ greeksBody.interestRate = Num(0)
    /\ greeksCall.r = Dec(0, 500, 0, 0)
    /\ greeksResponse.body =
          GreeksOf([GreeksArguments(greeksBody) EXCEPT !.r = Dec(0, 500, 0, 0)])
    /\ greeksResponse.body #
          GreeksOf([GreeksArguments(greeksBody) EXCEPT !.r = Num(0)])

----------------------------------------------------------------------------
(* Invariants of the stored portfolios.                                    *)

\* The positions of every portfolio.
StoredPositions ==
    UNION {{portfolios[k].positions[i] : i \in 1..Len(portfolios[k].positions)} :
             k \in DOMAIN portfolios}

\* C23: after any sequence of addPosition, updatePosition and
\* removePosition calls no two positions of a portfolio have the same
\* symbol, and every stored symbol is upper-case.
C23_SymbolsUniqueAndUpperCase ==
    /\ \A k \in DOMAIN portfolios :
          \A i, j \in 1..Len(portfolios[k].positions) :
              i # j => portfolios[k].positions[i].symbol # portfolios[k].positions[j].symbol
    /\ \A p \in StoredPositions : ToUpperCase(p.symbol) = p.symbol

\* Two positions are held, one of them posted in lower case, and the last
\* call has updated one of the two.
C23_Witness ==
    /\ request.op = "updatePosition"
    /\ response.status = 200
    /\ {p.symbol : p \in StoredPositions} = {Str("AAPL"), Str("MSFT")}
    /\ Len(portfolios[defaultPortfolioId].positions) = 2

\* C24: after any sequence of successful addPosition and updatePosition
\* calls every stored position has a finite quantity > 0 and a finite
\* purchasePrice > 0; merging never divides by a zero total quantity.
C24_QuantitiesAndPricesPositive ==
    \A p \in StoredPositions :
        /\ IsFinite(p.quantity) /\ FGt(p.quantity, Num(0))
        /\ IsFinite(p.purchasePrice) /\ FGt(p.purchasePrice, Num(0))

\* A lot of 5 was merged into a position whose quantity had been updated to
\* -5: the position holds quantity 0 at a purchasePrice that is not finite.
C24_MergedIntoZeroQuantity ==
    /\ request.op = "addPosition"
    /\ response.status = 200
    /\ \E p \in StoredPositions :
          IsZero(p.quantity) /\ ~IsFinite(p.purchasePrice)

\* C25: every createPortfolio call adds one portfolio under an id no
\* existing portfolio has: the number of portfolios grows by one and no
\* existing portfolio is replaced, also for two calls in one millisecond.
C25_CreateAddsOnePortfolio ==
    [][request'.op = "createPortfolio" =>
          /\ Cardinality(DOMAIN portfolios') = Cardinality(DOMAIN portfolios) + 1
          /\ \A k \in DOMAIN portfolios : portfolios'[k] = portfolios[k]]_vars

\* Two createPortfolio calls were answered and one created portfolio is
\* stored next to the default one.
C25_SecondCreateReplacedFirst ==
    /\ created = 2
    /\ request.op = "createPortfolio"
    /\ response.status = 200
    /\ DOMAIN portfolios = {defaultPortfolioId, "portfolio_0"}

\* C29: a portfolio read for a portfolioId that does not exist is handled
\* without an exception: GET /api/portfolio does not answer 500.
C29_UnknownPortfolioReadWithoutError ==
    (request.op = "getPortfolioSummary" /\ ~HasPortfolio(portfolios, request.portfolioId))
        => response.status = 200

\* The summary of a portfolio that does not exist was asked for and the
\* route answered 500, where calculatePortfolioPerformance returns zeros.
C29_UnknownPortfolioAnswered500 ==
    /\ request.op = "getPortfolioSummary"
    /\ ~HasPortfolio(portfolios, request.portfolioId)
    /\ calculatePortfolioPerformance(portfolios, request.portfolioId).totalValue = Num(0)
    /\ response = [status |-> 500, error |-> "Failed to fetch portfolio"]

----------------------------------------------------------------------------
(* The confidence levels the simulation route lets through.                *)

\* The index is one of 0 .. n - 1.
IndexInRange(index, n) == FGe(index, Num(0)) /\ FLt(index, Num(n))

\* The two indices of calculateConfidenceIntervals for the level the route
\* passed, over n outcomes.
IntervalIndices(body, n) ==
    [lower |-> FFloor[FMul[Num(n),
                  FDiv[FSub[Num(1), SimulationArguments(body).confidenceLevel], Num(2)]]],
     upper |-> FFloor[FMul[Num(n),
                  FSub[Num(1),
                       FDiv[FSub[Num(1), SimulationArguments(body).confidenceLevel],
                            Num(2)]]]]]

\* The value is an element of the outcome array.
IsOutcome(x) == \E i \in 1..Len(simOutcomes) : simOutcomes[i] = x

\* C26: for every confidenceLevel the route can pass (0, 1 and values
\* above 1 included) the two indices of calculateConfidenceIntervals lie in
\* [0, n - 1], so projectedValue.worst and .best are elements of the outcome
\* array and worst <= median <= best.
C26_IntervalIndicesInRange ==
    simResponse.status = 200 =>
        /\ IndexInRange(IntervalIndices(simBody, Len(simOutcomes)).lower, Len(simOutcomes))
        /\ IndexInRange(IntervalIndices(simBody, Len(simOutcomes)).upper, Len(simOutcomes))
        /\ IsOutcome(simResponse.body.projectedValue.worst)
        /\ IsOutcome(simResponse.body.projectedValue.best)
        /\ FLe(simResponse.body.projectedValue.worst, simResponse.body.projectedValue.median)
        /\ FLe(simResponse.body.projectedValue.median, simResponse.body.projectedValue.best)

\* With confidenceLevel 1 the upper index is n: worst is the smallest of
\* the 10,000 outcomes and best is undefined.
C26_BestUndefinedAtLevelOne ==
    /\ simResponse.status = 200
    /\ simBody.confidenceLevel = Num(1)
    /\ Len(simOutcomes) = 10000
    /\ IntervalIndices(simBody, 10000).upper = Num(10000)
    /\ simResponse.body.projectedValue.worst = simOutcomes[1]
    /\ simResponse.body.projectedValue.best = Undefined

----------------------------------------------------------------------------
(* The Greeks of the legs the browser posts.                               *)

\* The signed Greek of a leg: greeks[greek] * quantity * multiplier.
SignedGreek(greeks, leg, greek) ==
    FMul[FMul[greeks[greek], leg.quantity],
         IF leg.action = "buy" THEN Num(1) ELSE Num(-1)]

\* One total of calculateTotalGreeks(legs): the legs without a greeks
\* object are passed over.
TotalGreek(ls, greek) ==
    LET total[n \in 0..Len(ls)] ==
            IF n = 0 THEN Num(0)
            ELSE IF "greeks" \in DOMAIN ls[n]
            THEN FAdd[total[n - 1], SignedGreek(ls[n].greeks, ls[n], greek)]
            ELSE total[n - 1]
    IN  total[Len(ls)]

\* calculateTotalGreeks(legs)
calculateTotalGreeks(ls) ==
    [delta |-> TotalGreek(ls, "delta"), gamma |-> TotalGreek(ls, "gamma"),
     theta |-> TotalGreek(ls, "theta"), vega |-> TotalGreek(ls, "vega")]

\* The leg is a call or a put with a strike and a premium, as
\* collectStrategyLegs sends it.
IsFormOptionLeg(leg) ==
    /\ leg.type \in {"call", "put"}
    /\ ~Not(leg.strike) /\ ~Not(leg.premium)

\* C27: for every option leg (call or put with strike and premium) that
\* collectStrategyLegs sends, analyzeStrategy returns the leg with a greeks
\* object, so the totals of calculateTotalGreeks are the signed sums of the
\* legs' Greeks and not zero.
C27_FormLegsGetGreeks ==
    \A r \in 1..Len(analysisRuns) :
        \A i \in 1..Len(analysisInput.legs) :
            IsFormOptionLeg(analysisInput.legs[i])
                => "greeks" \in DOMAIN analysisRuns[r].legs[i]

\* The delta of the call spread as the pricer gives it, 30 days from expiry.
SpreadDelta ==
    FSub[calculateGreeks(analysisInput.stockPrice, Num(100), FDiv[Num(30), Num(365)],
                         riskFreeRate, Dec(0, 2500, 0, 0), "call").delta,
         calculateGreeks(analysisInput.stockPrice, Num(110), FDiv[Num(30), Num(365)],
                         riskFreeRate, Dec(0, 2500, 0, 0), "call").delta]

\* The call spread came back from analyzeStrategy as it was sent: its legs
\* have no greeks and every total is 0, while the delta of the position is
\* above zero.
C27_TotalsAreZero ==
    /\ Len(analysisRuns) > 0
    /\ Len(analysisInput.legs) = 2
    /\ \A i \in 1..2 : IsFormOptionLeg(analysisInput.legs[i])
    /\ analysisRuns[1].legs = analysisInput.legs
    /\ calculateTotalGreeks(analysisRuns[1].legs) =
          [delta |-> Num(0), gamma |-> Num(0), theta |-> Num(0), vega |-> Num(0)]
    /\ FGt(SpreadDelta, Num(0))

----------------------------------------------------------------------------
(* The expiration dates of a generated chain.                              *)

\* C30: on whatever weekday generateExpirationDates is called, every date
\* it returns lies strictly after the current day and the list is sorted
\* ascending without duplicates, so getDaysToExpiration is above 0 for
\* every expiration of a generated chain and the pricer is never called
\* with T <= 0.
C30_ExpirationsAfterToday ==
    /\ \A i \in 1..Len(chainExpirations) :
          /\ chainExpirations[i].date > DateString(chainNow)
          /\ chainExpirations[i].date > DateString(chainNow + chainZone)
          /\ chainExpirations[i].daysToExpiry > 0
    /\ \A i \in 1..(Len(chainExpirations) - 1) :
          chainExpirations[i].date < chainExpirations[i + 1].date

\* Asked for on a Saturday noon, the chain begins with the day before and
\* prices its options with timeToExpiry = -1 / 365.
C30_ChainBeginsYesterday ==
    /\ Len(chainExpirations) > 0
    /\ chainZone = 0
    /\ getDay(chainNow \div HoursPerDay) = 6
    /\ chainNow % HoursPerDay = 12
    /\ chainExpirations[1].date = DateString(chainNow - HoursPerDay)
    /\ chainExpirations[1].daysToExpiry = -1

============================================================================
